---- MODULE Spec2Model ----
(***************************************************************************)
(* Model of the csaf_aggregator mirroring subsystem: the orchestrator      *)
(* (processor.process, removeOrphans, handleProvider), the per-provider    *)
(* mirror (worker.mirror, worker.mirrorInternal, writeProviderMetadata)    *)
(* and the commit transaction (worker.doMirrorTransaction), over an        *)
(* abstract file system made of the <folder> directory, the publish        *)
(* directory <web>/.well-known/csaf-aggregator, the <web> directory that   *)
(* removeOrphans scans, and the manifest file aggregator.json.             *)
(***************************************************************************)
EXTENDS Integers, Sequences, FiniteSets, TLC

\* ------------------------------------------------------------------ bounds

\* Number of providers in the configuration.
NumProviders == 2

\* Largest number of workers (cfg.Workers) a configuration asks for.
NumWorkers == 2

\* ------------------------------------------------------------------ names

\* cfg.Providers in configuration order; provider i is named i.
\* checkProviders rejects duplicate names, so the names are distinct.
Providers == 1 .. NumProviders

\* The name of a provider of an earlier configuration that the current
\* configuration no longer lists.
GoneName == NumProviders + 1

\* An entry of <web> that never was a provider ("external-link").
ExtName == NumProviders + 2

\* The entry ".well-known" of <web>.
WellKnown == NumProviders + 3

\* Names that may have an entry in the publish directory.
Names == Providers \cup {GoneName}

\* Names of the entries of <web>, the directory removeOrphans reads.
TopNames == Names \cup {ExtName, WellKnown}

Workers == 1 .. NumWorkers

\* ------------------------------------------------------------ file system

\* Directories directly inside <folder>: the snapshot a previous run
\* published for a name, the staging directory this run creates for it,
\* and a staging directory an interrupted run left behind.
Old(n) == <<"old", n>>
New(n) == <<"new", n>>
Stale(n) == <<"stale", n>>
NoDir == <<"none", 0>>

DirIds == {Old(n) : n \in Names} \cup {New(n) : n \in Names} \cup {Stale(n) : n \in Names}

\* What a snapshot directory can hold.
Complete == {"advisories", "indices", "keys", "pm"}

\* A directory that does not exist.
Missing == [exists |-> FALSE, files |-> {}]

\* A manifest fragment (csaf.AggregatorCSAFProvider): the provider it
\* describes and its list of mirror URLs.
NoResult == [name |-> 0, mirrors |-> <<>>]

VARIABLES
    call,         \* a call of a function examined on its own: arguments and result
    nWorkers,     \* cfg.Workers
    mirrorMode,   \* cfg.Aggregator.Category is "aggregator"
    pcMain,       \* position of processor.process
    next,         \* index of the next job process() submits
    closed,       \* the job channel has been closed
    jobs,         \* jobs[i]: the job struct of provider i
    workers,      \* workers[w]: state of the goroutine handleProvider(w)
    dirs,         \* dirs[d]: the directory d inside <folder>
    folderLink,   \* folderLink[n]: the entry <folder>/<n> (a symlink target or NoDir)
    webLink,      \* webLink[n]: the publish path of n (a symlink target or NoDir)
    webTop,       \* webTop[e]: the entry <web>/<e>
    manifest,     \* content of aggregator.json
    csafProviders,\* the list process() assembles
    prevLink      \* history: the publish paths when the run started

vars == <<call, nWorkers, mirrorMode, pcMain, next, closed, jobs, workers, dirs, folderLink,
          webLink, webTop, manifest, csafProviders, prevLink>>

fsVars == <<dirs, folderLink, webLink>>


\* ------------------------------------------------------- entries of <web>

\* An entry of <web> as removeOrphans sees it: the kind of the entry and,
\* for a symlink, where its target lies (directly inside <folder>, deeper
\* inside <folder>, outside <folder>) and what the target is.  An entry of
\* kind "none" does not exist; its tkind tells whether the former target
\* of a removed link still exists.
Absent == [kind |-> "none", loc |-> "-", tkind |-> "-"]
RegularFile == [kind |-> "file", loc |-> "-", tkind |-> "-"]
RealDir == [kind |-> "dir", loc |-> "-", tkind |-> "-"]
Link(l, t) == [kind |-> "symlink", loc |-> l, tkind |-> t]

Locs == {"folder", "nested", "outside"}

TopEntries ==
    {Absent, RegularFile, RealDir}
        \cup {Link(l, "dir") : l \in Locs}
        \cup {Link("outside", "file"), Link("folder", "none")}

\* ------------------------------------------------------------------- init

\* The job struct {provider, result, err} of provider i, with the history
\* of its mirror: done (p.mirror has returned), returned (the fragment
\* worker.mirror returned), logged (worker.mirror logged "Could not
\* remove directory"), denied (the error is the "no mirroring of ...
\* allowed" of mirrorInternal) and received (how often a worker took the job
\* from the channel).
NewJob ==
    [err |-> FALSE, result |-> NoResult, done |-> FALSE, returned |-> NoResult,
     logged |-> FALSE, denied |-> FALSE, received |-> 0]

\* A worker that holds no job.  Of the fields, dir is w.dir, old the oldWeb
\* of doMirrorTransaction, labels and written describe w.summaries, err,
\* failedAt and res are what mirrorInternal returns, flag is what
\* w.metadataProvider holds at $.mirror_on_CSAF_aggregators, and did is the
\* history of the steps of the current mirror that succeeded.
IdleWorker(pc) ==
    [pc |-> pc, job |-> 0, dir |-> NoDir, old |-> NoDir, err |-> FALSE,
     failedAt |-> "-", res |-> NoResult, labels |-> FALSE, written |-> FALSE,
     flag |-> "-", did |-> <<>>]

\* No function is examined on its own.
NoCall == [fn |-> "none"]

\* The file system an earlier run left: the providers in pub and the
\* provider "gone" of the earlier configuration are published (their
\* publish path is a symlink to a complete snapshot directory inside
\* <folder>), the names in left have a <folder>/<name> symlink to a staging
\* directory of a run that stopped between steps 3 and 4 of the commit.
InitWith(tops) ==
    /\ call = NoCall
    /\ nWorkers \in 1 .. NumWorkers
    /\ mirrorMode \in BOOLEAN
    /\ pcMain = "ensure"
    /\ next = 1
    /\ closed = FALSE
    /\ jobs = [i \in Providers |-> NewJob]
    /\ workers = [w \in Workers |-> IdleWorker("off")]
    /\ \E pub \in SUBSET Providers, left \in {{}, {1}} :
          /\ dirs = [d \in DirIds |->
                        IF \E n \in pub \cup {GoneName} : d = Old(n)
                        THEN [exists |-> TRUE, files |-> Complete]
                        ELSE IF \E n \in left : d = Stale(n)
                        THEN [exists |-> TRUE, files |-> {"advisories", "indices"}]
                        ELSE Missing]
          /\ webLink = [n \in Names |->
                           IF n \in pub \cup {GoneName} THEN Old(n) ELSE NoDir]
          /\ folderLink = [n \in Names |-> IF n \in left THEN Stale(n) ELSE NoDir]
          /\ \E run \in {"absent", "prev"} :
                manifest = [run |-> run, providers |-> <<>>, tmp |-> "none"]
    /\ webTop \in tops
    /\ csafProviders = <<>>
    /\ prevLink = webLink

\* <web> as the aggregator itself leaves it: it holds the directory
\* .well-known and nothing else.
PlainTops ==
    {[e \in TopNames |-> IF e = WellKnown THEN RealDir ELSE Absent]}

\* The runs with an aggregator.json of an earlier run in place.
Init == InitWith(PlainTops) /\ manifest.run = "prev"

\* ----------------------------------------------------------- orchestrator

\* process(): ensureDir(cfg.Folder) and ensureDir(<web>/.well-known/csaf);
\* an error of either ends process().
EnsureDirs ==
    /\ pcMain = "ensure"
    /\ \E ok \in BOOLEAN : pcMain' = IF ok THEN "orphans" ELSE "failed"
    /\ UNCHANGED <<call, nWorkers, mirrorMode, next, closed, jobs, workers, dirs, folderLink,
                   webLink, webTop, manifest, csafProviders, prevLink>>

\* keep[entry.Name()]: the entry is named like a configured provider.
Keep(e) == e \in Providers

\* The entries of <web> for which removeOrphans reaches os.Remove(d): not
\* kept, a symlink, EvalSymlinks and Stat of the target succeed, and the
\* target is a directory.
ReachesRemove(e, ent) ==
    /\ ~Keep(e)
    /\ ent.kind = "symlink"
    /\ ent.tkind = "dir"

\* rel == filepath.Base(r): the target lies directly inside <folder>.
InOurFolder(ent) == ent.loc = "folder"

\* One iteration of the loop of removeOrphans over an entry.  fault says
\* which call fails for it: "link" os.Remove(d), "dir" os.RemoveAll(r),
\* "none" neither.  Both failures are logged and the loop goes on.
OrphanEntry(e, ent, fault) ==
    IF ~ReachesRemove(e, ent) THEN ent
    ELSE IF fault = "link" THEN ent
    ELSE IF InOurFolder(ent) /\ fault # "dir"
         THEN [kind |-> "none", loc |-> ent.loc, tkind |-> "none"]
         ELSE [kind |-> "none", loc |-> ent.loc, tkind |-> ent.tkind]

Faults == {"none", "link", "dir"}

\* removeOrphans(): reads the entries of cfg.Web and runs the loop; failing
\* to open or read cfg.Web or to resolve cfg.Folder ends process().
RemoveOrphans ==
    /\ pcMain = "orphans"
    /\ \/ /\ pcMain' = "failed"
          /\ UNCHANGED webTop
       \/ /\ pcMain' = "start"
          /\ \E f \in [{e \in TopNames : ReachesRemove(e, webTop[e])} -> Faults] :
                webTop' = [e \in TopNames |->
                              OrphanEntry(e, webTop[e],
                                  IF e \in DOMAIN f THEN f[e] ELSE "none")]
    /\ UNCHANGED <<call, nWorkers, mirrorMode, next, closed, jobs, workers, dirs, folderLink,
                   webLink, manifest, csafProviders, prevLink>>

\* process(): go p.handleProvider(&wg, i, queue) for i = 1..cfg.Workers.
\* setDefaults leaves cfg.Workers at 1 or more.
StartWorkers ==
    /\ pcMain = "start"
    /\ pcMain' = "submit"
    /\ workers' = [w \in Workers |->
                       IF w <= nWorkers THEN IdleWorker("recv") ELSE IdleWorker("off")]
    /\ UNCHANGED <<call, nWorkers, mirrorMode, next, closed, jobs, dirs, folderLink, webLink,
                   webTop, manifest, csafProviders, prevLink>>

\* A faulty variant of the channel: it has a buffer, so the send of
\* process() can complete while no worker receives.
ReceiveJobBuffered(w) ==
    /\ pcMain = "submit"
    /\ next <= NumProviders
    /\ next' = next + 1
    /\ \/ /\ workers[w].pc = "recv"
          /\ jobs' = [jobs EXCEPT ![next].received = @ + 1]
          /\ workers' = [workers EXCEPT ![w] =
                 IF mirrorMode
                 THEN [IdleWorker("locate") EXCEPT !.job = next]
                 ELSE IdleWorker("recv")]
       \/ /\ workers[w].pc # "recv"
          /\ UNCHANGED <<jobs, workers>>
    /\ UNCHANGED <<call, nWorkers, mirrorMode, pcMain, closed, dirs, folderLink, webLink,
                   webTop, manifest, csafProviders, prevLink>>

\* A faulty variant of the submission loop: it can send the same job again
\* instead of going on to the next provider.
ReceiveJobAgain(w) ==
    /\ pcMain = "submit"
    /\ next <= NumProviders
    /\ workers[w].pc = "recv"
    /\ next' \in {next, next + 1}
    /\ jobs' = [jobs EXCEPT ![next].received = @ + 1]
    /\ workers' = [workers EXCEPT ![w] =
           IF mirrorMode
           THEN [IdleWorker("locate") EXCEPT !.job = next]
           ELSE IdleWorker("recv")]
    /\ UNCHANGED <<call, nWorkers, mirrorMode, pcMain, closed, dirs, folderLink, webLink,
                   webTop, manifest, csafProviders, prevLink>>

\* queue <- &jobs[i] meeting "for j := range jobs" of worker w: the channel
\* is unbuffered, so the send completes when a worker receives.  In mirror
\* mode the worker goes on to p.mirror(j.provider); otherwise the loop body
\* only logs and the worker receives again.
ReceiveJob(w) ==
    /\ pcMain = "submit"
    /\ next <= NumProviders
    /\ workers[w].pc = "recv"
    /\ next' = next + 1
    /\ jobs' = [jobs EXCEPT ![next].received = @ + 1]
    /\ workers' = [workers EXCEPT ![w] =
           IF mirrorMode
           THEN [IdleWorker("locate") EXCEPT !.job = next]
           ELSE IdleWorker("recv")]
    /\ UNCHANGED <<call, nWorkers, mirrorMode, pcMain, closed, dirs, folderLink, webLink,
                   webTop, manifest, csafProviders, prevLink>>

\* A faulty variant of process() that goes on to wg.Wait() without
\* closing the channel.
CloseQueueForgotten ==
    /\ pcMain = "submit"
    /\ next > NumProviders
    /\ pcMain' = "wait"
    /\ UNCHANGED <<call, nWorkers, mirrorMode, next, closed, jobs, workers, dirs, folderLink,
                   webLink, webTop, manifest, csafProviders, prevLink>>

\* close(queue) after the last send; process() then waits in wg.Wait().
CloseQueue ==
    /\ pcMain = "submit"
    /\ next > NumProviders
    /\ closed' = TRUE
    /\ pcMain' = "wait"
    /\ UNCHANGED <<call, nWorkers, mirrorMode, next, jobs, workers, dirs, folderLink, webLink,
                   webTop, manifest, csafProviders, prevLink>>

\* The range loop of worker w ends on the closed channel; defer wg.Done().
WorkerExit(w) ==
    /\ workers[w].pc = "recv"
    /\ closed
    /\ workers' = [workers EXCEPT ![w].pc = "exited"]
    /\ UNCHANGED <<call, nWorkers, mirrorMode, pcMain, next, closed, jobs, dirs, folderLink,
                   webLink, webTop, manifest, csafProviders, prevLink>>

\* A faulty variant of the barrier: it is passed as soon as one worker
\* has called wg.Done().
WaitDoneEarly ==
    /\ pcMain = "wait"
    /\ \E w \in 1 .. nWorkers : workers[w].pc = "exited"
    /\ pcMain' = "assemble"
    /\ UNCHANGED <<call, nWorkers, mirrorMode, next, closed, jobs, workers, dirs, folderLink,
                   webLink, webTop, manifest, csafProviders, prevLink>>

\* wg.Wait() returns when every worker has called wg.Done().
WaitDone ==
    /\ pcMain = "wait"
    /\ \A w \in 1 .. nWorkers : workers[w].pc = "exited"
    /\ pcMain' = "assemble"
    /\ UNCHANGED <<call, nWorkers, mirrorMode, next, closed, jobs, workers, dirs, folderLink,
                   webLink, webTop, manifest, csafProviders, prevLink>>

\* The loop over jobs in process(): a job with an error or without a
\* result is skipped, the result of every other job is appended.
RECURSIVE Collect(_, _)
Collect(js, i) ==
    IF i > NumProviders THEN <<>>
    ELSE IF js[i].err \/ js[i].result = NoResult
         THEN Collect(js, i + 1)
         ELSE <<js[i].result>> \o Collect(js, i + 1)

Assemble ==
    /\ pcMain = "assemble"
    /\ csafProviders' = Collect(jobs, 1)
    /\ pcMain' = "write"
    /\ UNCHANGED <<call, nWorkers, mirrorMode, next, closed, jobs, workers, dirs, folderLink,
                   webLink, webTop, manifest, prevLink>>

\* A faulty variant of the manifest write that creates aggregator.json
\* itself and writes into it.
WriteManifestInPlace ==
    /\ pcMain = "write"
    /\ \E ok \in BOOLEAN :
          IF manifest.tmp = "none"
          THEN /\ manifest' = IF ok THEN [run |-> "partial", providers |-> <<>>,
                                          tmp |-> "written"]
                              ELSE manifest
               /\ pcMain' = IF ok THEN "write" ELSE "failed"
          ELSE /\ manifest' = IF ok THEN [run |-> "this", providers |-> csafProviders,
                                          tmp |-> "none"]
                              ELSE manifest
               /\ pcMain' = IF ok THEN "done" ELSE "failed"
    /\ UNCHANGED <<call, nWorkers, mirrorMode, next, closed, jobs, workers, dirs, folderLink,
                   webLink, webTop, csafProviders, prevLink>>

\* The end of process(), one call per step: util.MakeUniqFile(dstName)
\* creates a temp file next to aggregator.json, agg.WriteTo(file) writes the
\* manifest into it, file.Close(), and os.Rename(fname, dstName) puts it in
\* place.  manifest.tmp is the temp file: "none", "created" (empty),
\* "partial" (WriteTo failed), "written", "closed".  An error of any call
\* ends process().
WriteManifest ==
    /\ pcMain = "write"
    /\ \E ok \in BOOLEAN :
          IF manifest.tmp = "none"
          THEN /\ manifest' = IF ok THEN [manifest EXCEPT !.tmp = "created"] ELSE manifest
               /\ pcMain' = IF ok THEN "write" ELSE "failed"
          ELSE IF manifest.tmp = "created"
          THEN /\ manifest' = [manifest EXCEPT !.tmp = IF ok THEN "written" ELSE "partial"]
               /\ pcMain' = IF ok THEN "write" ELSE "failed"
          ELSE IF manifest.tmp = "written"
          THEN /\ manifest' = IF ok THEN [manifest EXCEPT !.tmp = "closed"] ELSE manifest
               /\ pcMain' = IF ok THEN "write" ELSE "failed"
          ELSE /\ manifest' = IF ok THEN [run |-> "this", providers |-> csafProviders,
                                          tmp |-> "none"]
                              ELSE manifest
               /\ pcMain' = IF ok THEN "done" ELSE "failed"
    /\ UNCHANGED <<call, nWorkers, mirrorMode, next, closed, jobs, workers, dirs, folderLink,
                   webLink, webTop, csafProviders, prevLink>>

\* ------------------------------------------------------------------ worker

\* os.RemoveAll(d) on a directory inside <folder>: with ok it removes d and
\* everything below it, otherwise it fails and leaves d in place.
RemoveAll(ds, d, ok) ==
    IF d # NoDir /\ ok THEN [ds EXCEPT ![d] = Missing] ELSE ds

\* The results os.RemoveAll(d) can have: a missing or empty path is no
\* error, removing an existing directory may fail.
RemoveAllResults(d) ==
    IF d # NoDir /\ dirs[d].exists THEN BOOLEAN ELSE {TRUE}

\* A step of the mirror of worker w returns the error of step at; control
\* goes back to worker.mirror.
FailAt(w, at) ==
    [workers EXCEPT ![w].pc = "return", ![w].err = TRUE, ![w].failedAt = at]

\* A step of the mirror of worker w succeeded and is recorded as such.
Done(w, pc, step) == [workers EXCEPT ![w].pc = pc, ![w].did = Append(@, step)]

\* What a provider metadata document can hold at
\* $.mirror_on_CSAF_aggregators: nothing, the booleans, or a value that is
\* no boolean.
Flags == {"absent", "false", "true", "string"}

\* p.mirror(j.provider) first locates the provider metadata
\* (locateProviderMetadata); without it the mirror fails before
\* worker.mirror runs.  The document found becomes w.metadataProvider.
Locate(w) ==
    /\ workers[w].pc = "locate"
    /\ \/ \E f \in Flags :
             workers' = [Done(w, "allowed", "locate") EXCEPT ![w].flag = f]
       \/ workers' = FailAt(w, "locate")
    /\ UNCHANGED <<call, nWorkers, mirrorMode, pcMain, next, closed, jobs, dirs, folderLink,
                   webLink, webTop, manifest, csafProviders, prevLink>>

\* A faulty variant of the policy check that takes a missing
\* mirror_on_CSAF_aggregators for a permission.
MirrorAllowedByDefault(w) ==
    /\ workers[w].pc = "allowed"
    /\ IF workers[w].flag \in {"true", "absent"}
       THEN workers' = Done(w, "enumerate", "allowed")
       ELSE workers' = FailAt(w, "allowed")
    /\ UNCHANGED <<call, nWorkers, mirrorMode, pcMain, next, closed, jobs, dirs, folderLink,
                   webLink, webTop, manifest, csafProviders, prevLink>>

\* mirrorInternal: if !w.mirrorAllowed() it returns an error.
\* mirrorAllowed extracts the optional boolean $.mirror_on_CSAF_aggregators:
\* it is true only when the extraction gives no error and the value is
\* true.
MirrorAllowed(w) ==
    /\ workers[w].pc = "allowed"
    /\ IF workers[w].flag = "true"
       THEN workers' = Done(w, "enumerate", "allowed")
       ELSE workers' = FailAt(w, "allowed")
    /\ UNCHANGED <<call, nWorkers, mirrorMode, pcMain, next, closed, jobs, dirs, folderLink,
                   webLink, webTop, manifest, csafProviders, prevLink>>

\* w.createDir(), called by mirrorFiles: the staging directory of the
\* provider, a new uniquely named directory inside <folder>.
CreateDir(n) == New(n)

\* mirrorInternal: afp.Process(w.mirrorFiles).  The outcomes:
\*   "error"   Process fails before mirrorFiles has created the directory;
\*   "partial" mirrorFiles created the directory, wrote advisories and then
\*             returned an error (MkdirAll, writeFileHashes, signing);
\*   "nofeed"  Process returns nil without having called mirrorFiles (every
\*             feed was skipped);
\*   "empty"   mirrorFiles ran, every advisory was skipped: the label is
\*             recorded in w.summaries, no <label>/<year> directory exists;
\*   "files"   mirrorFiles ran and wrote advisories.
Enumerate(w) ==
    LET n == workers[w].job
        d == CreateDir(n)
    IN
    /\ workers[w].pc = "enumerate"
    /\ \E outcome \in {"error", "partial", "nofeed", "empty", "files"} :
          CASE outcome = "error" ->
                  /\ workers' = FailAt(w, "enumerate")
                  /\ UNCHANGED dirs
            [] outcome = "partial" ->
                  /\ workers' = [FailAt(w, "enumerate") EXCEPT ![w].dir = d]
                  /\ dirs' = [dirs EXCEPT ![d] = [exists |-> TRUE, files |-> {"advisories"}]]
            [] outcome = "nofeed" ->
                  /\ workers' = Done(w, "indices", "enumerate")
                  /\ UNCHANGED dirs
            [] outcome = "empty" ->
                  /\ workers' = [Done(w, "indices", "enumerate") EXCEPT
                                    ![w].dir = d, ![w].labels = TRUE]
                  /\ dirs' = [dirs EXCEPT ![d] = [exists |-> TRUE, files |-> {}]]
            [] outcome = "files" ->
                  /\ workers' = [Done(w, "indices", "enumerate") EXCEPT
                                    ![w].dir = d, ![w].labels = TRUE, ![w].written = TRUE]
                  /\ dirs' = [dirs EXCEPT ![d] = [exists |-> TRUE, files |-> {"advisories"}]]
    /\ UNCHANGED <<call, nWorkers, mirrorMode, pcMain, next, closed, jobs, folderLink, webLink,
                   webTop, manifest, csafProviders, prevLink>>

\* writeIndices: nothing to do when w.summaries is empty or w.dir is "";
\* otherwise changes.csv, index.txt and the feed are written per label.
\* os.Create of <dir>/<label>/changes.csv fails when no advisory created
\* the <label> directory.
WriteIndices(w) ==
    LET d == workers[w].dir IN
    /\ workers[w].pc = "indices"
    /\ IF ~workers[w].labels \/ d = NoDir
       THEN /\ workers' = Done(w, "txResolve", "indices")
            /\ UNCHANGED dirs
       ELSE \/ /\ workers[w].written
               /\ workers' = Done(w, "txResolve", "indices")
               /\ dirs' = [dirs EXCEPT ![d].files = @ \cup {"indices"}]
            \/ /\ workers' = FailAt(w, "indices")
               /\ UNCHANGED dirs
    /\ UNCHANGED <<call, nWorkers, mirrorMode, pcMain, next, closed, jobs, folderLink, webLink,
                   webTop, manifest, csafProviders, prevLink>>

\* ------------------------------------------------------ commit transaction

\* The error path of steps 1 to 4 of doMirrorTransaction:
\* os.RemoveAll(w.dir), whose own error is dropped, and return err.
TxRollback(w, at) ==
    /\ \E rm \in RemoveAllResults(workers[w].dir) :
          dirs' = RemoveAll(dirs, workers[w].dir, rm)
    /\ workers' = FailAt(w, at)

\* os.Stat(webTarget) follows the symlink: the publish path exists if it is
\* a symlink whose target exists.
WebTargetExists(n) == webLink[n] # NoDir /\ dirs[webLink[n]].exists

\* A faulty variant of step 1 that deletes the old snapshot as soon as it
\* has resolved it, before the publish path has been swapped.
TxResolveEager(w) ==
    LET n == workers[w].job
        old == IF WebTargetExists(n) THEN webLink[n] ELSE NoDir
    IN
    /\ workers[w].pc = "txResolve"
    /\ \/ /\ workers' = [workers EXCEPT ![w].pc = "txRemove", ![w].old = old]
          /\ dirs' = RemoveAll(dirs, old, TRUE)
       \/ TxRollback(w, "resolve")
    /\ UNCHANGED <<call, nWorkers, mirrorMode, pcMain, next, closed, jobs, folderLink, webLink,
                   webTop, manifest, csafProviders, prevLink>>

\* Step 1: resolve the publish path into oldWeb; a missing publish path
\* leaves oldWeb empty, any other error of Stat or EvalSymlinks rolls back.
TxResolve(w) ==
    LET n == workers[w].job IN
    /\ workers[w].pc = "txResolve"
    /\ \/ /\ workers' = [workers EXCEPT
                            ![w].pc = "txRemove",
                            ![w].old = IF WebTargetExists(n) THEN webLink[n] ELSE NoDir]
          /\ UNCHANGED dirs
       \/ TxRollback(w, "resolve")
    /\ UNCHANGED <<call, nWorkers, mirrorMode, pcMain, next, closed, jobs, folderLink, webLink,
                   webTop, manifest, csafProviders, prevLink>>

\* util.PathExists(target) for target = <folder>/<name>: os.Stat succeeds.
PathExists(n) == folderLink[n] # NoDir /\ dirs[folderLink[n]].exists

\* Step 2: if <folder>/<name> exists, os.RemoveAll(target) removes it (for
\* a symlink: the link, not what it points to); an error rolls back.
TxRemove(w) ==
    LET n == workers[w].job IN
    /\ workers[w].pc = "txRemove"
    /\ \/ /\ PathExists(n)
          /\ folderLink' = [folderLink EXCEPT ![n] = NoDir]
          /\ workers' = [workers EXCEPT ![w].pc = "txSymlink"]
          /\ UNCHANGED dirs
       \/ /\ ~PathExists(n)
          /\ workers' = [workers EXCEPT ![w].pc = "txSymlink"]
          /\ UNCHANGED <<dirs, folderLink>>
       \/ /\ TxRollback(w, "remove")
          /\ UNCHANGED folderLink
    /\ UNCHANGED <<call, nWorkers, mirrorMode, pcMain, next, closed, jobs, webLink, webTop,
                   manifest, csafProviders, prevLink>>

\* Step 3: os.Symlink(w.dir, target).  It fails for an empty w.dir and for
\* an existing target, and may fail otherwise; an error rolls back.
TxSymlink(w) ==
    LET n == workers[w].job IN
    /\ workers[w].pc = "txSymlink"
    /\ \/ /\ workers[w].dir # NoDir
          /\ folderLink[n] = NoDir
          /\ folderLink' = [folderLink EXCEPT ![n] = workers[w].dir]
          /\ workers' = [workers EXCEPT ![w].pc = "txRename"]
          /\ UNCHANGED dirs
       \/ /\ TxRollback(w, "symlink")
          /\ UNCHANGED folderLink
    /\ UNCHANGED <<call, nWorkers, mirrorMode, pcMain, next, closed, jobs, webLink, webTop,
                   manifest, csafProviders, prevLink>>

\* Step 4: os.Rename(target, webTarget) moves the symlink over the publish
\* path; an error rolls back and leaves <folder>/<name> behind.
TxRename(w) ==
    LET n == workers[w].job IN
    /\ workers[w].pc = "txRename"
    /\ \/ /\ webLink' = [webLink EXCEPT ![n] = folderLink[n]]
          /\ folderLink' = [folderLink EXCEPT ![n] = NoDir]
          /\ workers' = Done(w, "txRemoveOld", "commit")
          /\ UNCHANGED dirs
       \/ /\ TxRollback(w, "rename")
          /\ UNCHANGED <<folderLink, webLink>>
    /\ UNCHANGED <<call, nWorkers, mirrorMode, pcMain, next, closed, jobs, webTop, manifest,
                   csafProviders, prevLink>>

\* Step 5: if oldWeb != "" return os.RemoveAll(oldWeb); return nil.  With
\* the nil the transaction is done and mirrorInternal goes on.
TxRemoveOld(w) ==
    LET old == workers[w].old IN
    /\ workers[w].pc = "txRemoveOld"
    /\ \/ /\ dirs' = RemoveAll(dirs, old, TRUE)
          /\ workers' = [workers EXCEPT ![w].pc = "pmKeys"]
       \/ /\ old # NoDir
          /\ workers' = FailAt(w, "removeOld")
          /\ UNCHANGED dirs
    /\ UNCHANGED <<call, nWorkers, mirrorMode, pcMain, next, closed, jobs, folderLink, webLink,
                   webTop, manifest, csafProviders, prevLink>>

\* ------------------------------------------- provider metadata and result

\* writeProviderMetadata up to mirrorPGPKeys: the openpgp folder is created
\* and the keys are written into it; on an error mirrorPGPKeys removes the
\* openpgp folder and the error is returned.
MirrorPGPKeys(w) ==
    LET d == workers[w].dir IN
    /\ workers[w].pc = "pmKeys"
    /\ \/ /\ dirs' = [dirs EXCEPT ![d].files = @ \cup {"keys"}]
          /\ workers' = Done(w, "pmWrite", "keys")
       \/ /\ workers' = FailAt(w, "keys")
          /\ UNCHANGED dirs
    /\ UNCHANGED <<call, nWorkers, mirrorMode, pcMain, next, closed, jobs, folderLink, webLink,
                   webTop, manifest, csafProviders, prevLink>>

\* writeProviderMetadata: util.WriteToFile(fname, pm) writes
\* <dir>/provider-metadata.json.
WriteProviderMetadata(w) ==
    LET d == workers[w].dir IN
    /\ workers[w].pc = "pmWrite"
    /\ \/ /\ dirs' = [dirs EXCEPT ![d].files = @ \cup {"pm"}]
          /\ workers' = Done(w, "fragment", "pm")
       \/ /\ workers' = FailAt(w, "pm")
          /\ UNCHANGED dirs
    /\ UNCHANGED <<call, nWorkers, mirrorMode, pcMain, next, closed, jobs, folderLink, webLink,
                   webTop, manifest, csafProviders, prevLink>>

\* mirror.JoinPath("provider-metadata.json") on w.getProviderBaseURL().
MirrorURL(n) == [base |-> n, file |-> "provider-metadata.json"]

\* The fragment mirrorInternal returns: createAggregatorProvider() with
\* acp.Mirrors = []csaf.ProviderURL{mirrorURL}.
Fragment(n) == [name |-> n, mirrors |-> <<MirrorURL(n)>>]

\* mirrorInternal: createAggregatorProvider and getProviderBaseURL may
\* fail; otherwise the fragment is returned with a nil error.
CreateAggregatorProvider(w) ==
    /\ workers[w].pc = "fragment"
    /\ \/ workers' = [workers EXCEPT ![w].pc = "return",
                                     ![w].res = Fragment(workers[w].job)]
       \/ workers' = FailAt(w, "fragment")
    /\ UNCHANGED <<call, nWorkers, mirrorMode, pcMain, next, closed, jobs, dirs, folderLink,
                   webLink, webTop, manifest, csafProviders, prevLink>>

\* A faulty variant of worker.mirror that returns the error of
\* mirrorInternal without removing w.dir.
MirrorReturnNoCleanup(w) ==
    LET n == workers[w].job
        me == workers[w]
    IN
    /\ me.pc = "return"
    /\ jobs' = [jobs EXCEPT ![n] =
                   [@ EXCEPT !.err = me.err, !.done = TRUE, !.returned = me.res,
                             !.denied = (me.failedAt = "allowed")]]
    /\ workers' = [workers EXCEPT ![w] = IdleWorker("recv")]
    /\ UNCHANGED <<call, nWorkers, mirrorMode, pcMain, next, closed, dirs, folderLink, webLink,
                   webTop, manifest, csafProviders, prevLink>>

\* worker.mirror after mirrorInternal: on an error with w.dir != "" it
\* calls os.RemoveAll(w.dir) and only logs when that fails.  handleProvider
\* then stores the error, j.err = p.mirror(j.provider), and receives again;
\* nothing assigns j.result.
MirrorReturn(w) ==
    LET n == workers[w].job
        me == workers[w]
    IN
    /\ me.pc = "return"
    /\ IF me.err /\ me.dir # NoDir
       THEN \E rm \in RemoveAllResults(me.dir) :
               /\ dirs' = RemoveAll(dirs, me.dir, rm)
               /\ jobs' = [jobs EXCEPT ![n] =
                              [@ EXCEPT !.err = me.err, !.done = TRUE,
                                        !.returned = me.res, !.logged = ~rm,
                                        !.denied = (me.failedAt = "allowed")]]
       ELSE /\ dirs' = dirs
            /\ jobs' = [jobs EXCEPT ![n] =
                           [@ EXCEPT !.err = me.err, !.done = TRUE,
                                     !.returned = me.res,
                                     !.denied = (me.failedAt = "allowed")]]
    /\ workers' = [workers EXCEPT ![w] = IdleWorker("recv")]
    /\ UNCHANGED <<call, nWorkers, mirrorMode, pcMain, next, closed, folderLink, webLink,
                   webTop, manifest, csafProviders, prevLink>>

\* ------------------------------------------------------------ specification

Next ==
    \/ EnsureDirs
    \/ RemoveOrphans
    \/ StartWorkers
    \/ CloseQueue
    \/ WaitDone
    \/ Assemble
    \/ WriteManifest
    \/ \E w \in Workers :
          \/ ReceiveJob(w)
          \/ WorkerExit(w)
          \/ Locate(w)
          \/ MirrorAllowed(w)
          \/ Enumerate(w)
          \/ WriteIndices(w)
          \/ TxResolve(w)
          \/ TxRemove(w)
          \/ TxSymlink(w)
          \/ TxRename(w)
          \/ TxRemoveOld(w)
          \/ MirrorPGPKeys(w)
          \/ WriteProviderMetadata(w)
          \/ CreateAggregatorProvider(w)
          \/ MirrorReturn(w)

Spec == Init /\ [][Next]_vars

\* The runs of a configuration with workers = 1: one goroutine mirrors the
\* providers one after the other.
InitSeq == Init /\ nWorkers = 1

SpecSeq == InitSeq /\ [][Next]_vars

\* The first run of an aggregating mirror: no provider of the configuration
\* has a published snapshot or a leftover <folder>/<name> yet.
InitPool ==
    /\ Init
    /\ mirrorMode
    /\ \A n \in Providers : webLink[n] = NoDir /\ folderLink[n] = NoDir

SpecPool == InitPool /\ [][Next]_vars

\* The steps of the goroutine that runs process().
MainStep ==
    \/ EnsureDirs
    \/ RemoveOrphans
    \/ StartWorkers
    \/ CloseQueue
    \/ WaitDone
    \/ Assemble
    \/ WriteManifest

\* handleProvider: j.err = p.mirror(j.provider) taken as one step.  The
\* call returns, with an error or without; what it does to the
\* directories is left to the step-by-step actions of the mirror.
MirrorCall(w) ==
    LET n == workers[w].job IN
    /\ workers[w].pc = "locate"
    /\ \E err \in BOOLEAN, denied \in BOOLEAN :
          /\ denied => err
          /\ jobs' = [jobs EXCEPT ![n] =
                         [@ EXCEPT !.err = err, !.done = TRUE, !.denied = denied,
                                   !.returned = IF err THEN NoResult ELSE Fragment(n)]]
    /\ workers' = [workers EXCEPT ![w] = IdleWorker("recv")]
    /\ UNCHANGED <<call, nWorkers, mirrorMode, pcMain, next, closed, dirs, folderLink,
                   webLink, webTop, manifest, csafProviders, prevLink>>

\* The steps of the goroutine handleProvider(w), the receive included.
LoopStep(w) ==
    \/ ReceiveJob(w)
    \/ WorkerExit(w)
    \/ MirrorCall(w)

NextCalls == MainStep \/ \E w \in Workers : LoopStep(w)

\* The scheduler runs every goroutine that can take a step, and every
\* call of p.mirror returns: no goroutine that can go on waits forever.
Fairness ==
    /\ WF_vars(MainStep)
    /\ \A w \in Workers : WF_vars(LoopStep(w))

\* A run of either category on a fresh file system, with or without an
\* aggregator.json of an earlier run.
InitLive ==
    /\ InitWith(PlainTops)
    /\ \A n \in Providers : webLink[n] = NoDir /\ folderLink[n] = NoDir

SpecLive == InitLive /\ [][NextCalls]_vars /\ Fairness

\* The start of process() up to the end of removeOrphans, over every
\* content of <web>: each entry other than .well-known is any of the
\* entries of TopEntries.
AllTops == {t \in [TopNames -> TopEntries] : t[WellKnown] = RealDir}

InitOrphans ==
    /\ InitWith(AllTops)
    /\ manifest.run = "prev"
    /\ mirrorMode
    /\ \A n \in Providers : webLink[n] = NoDir /\ folderLink[n] = NoDir

NextOrphans == EnsureDirs \/ RemoveOrphans

SpecOrphans == InitOrphans /\ [][NextOrphans]_vars

\* ------------------------------------------------------------------ claims

\* A snapshot directory that exists and holds everything a snapshot holds.
Intact == [exists |-> TRUE, files |-> Complete]

\* C1: the publish path of a provider always resolves to the complete
\* snapshot of a fully successful run or to the snapshot the previous run
\* published: it is either what it was when the run started, with that
\* snapshot untouched, or the staging directory of this run, which then
\* exists and holds provider-metadata.json and the keys.
C1_PublishPathComplete ==
    \A n \in Providers :
        \/ /\ webLink[n] = prevLink[n]
           /\ webLink[n] # NoDir => dirs[webLink[n]] = Intact
        \/ /\ webLink[n] = CreateDir(n)
           /\ dirs[webLink[n]].exists
           /\ {"pm", "keys"} \subseteq dirs[webLink[n]].files

\* The order of the steps of a mirror as stated: locate, allowed,
\* enumerate, indices, provider metadata, keys, commit.
StatedOrder ==
    <<"locate", "allowed", "enumerate", "indices", "pm", "keys", "commit">>

\* C2: the steps of a provider's mirror succeed in the order allowed,
\* enumerate, indices, provider metadata, keys, commit; at every moment the
\* steps done so far are an initial part of that order, so the commit is
\* preceded by the indices, the provider metadata and the keys.
C2_StepsInStatedOrder ==
    \A w \in Workers :
        LET did == workers[w].did IN
        /\ Len(did) <= Len(StatedOrder)
        /\ did = SubSeq(StatedOrder, 1, Len(did))

\* The positions of doMirrorTransaction up to and including the rename.
BeforeSwap == {"txResolve", "txRemove", "txSymlink", "txRename"}

\* C3: while a provider's commit has not completed its rename, the publish
\* path still is what it was when the run started and the snapshot it
\* names is untouched; the previously published snapshot is modified or
\* deleted only when the publish path names the new staging directory.
C3_OldSnapshotUntilSwap ==
    \A n \in Providers :
        /\ (\E w \in Workers : workers[w].job = n /\ workers[w].pc \in BeforeSwap)
              => /\ webLink[n] = prevLink[n]
                 /\ prevLink[n] # NoDir => dirs[prevLink[n]] = Intact
        /\ (prevLink[n] # NoDir /\ dirs[prevLink[n]] # Intact)
              => webLink[n] = CreateDir(n)

\* C3 witness: a provider that was published before the run has had its
\* old snapshot deleted by step 5, with the publish path on the new
\* staging directory.
C3_Witness ==
    \E n \in Providers :
        /\ prevLink[n] # NoDir
        /\ ~dirs[prevLink[n]].exists
        /\ webLink[n] = CreateDir(n)
        /\ jobs[n].done

\* C4: a failure in steps 1 to 3 of the commit returns the error and
\* removes the staging directory (unless that removal itself fails and
\* leaves it as it was); a failure in step 4 or 5 returns the error and
\* does not roll back: neither the failing step nor the return from the
\* mirror after it removes the staging directory.
C4_CommitFailureHandling ==
    [][\A w \in Workers :
          LET me == workers[w]
              d == me.dir
              after == workers'[w]
          IN
          /\ (me.pc \in {"txResolve", "txRemove", "txSymlink"} /\ after.pc = "return")
                => /\ after.err
                   /\ d # NoDir => (dirs'[d] = Missing \/ dirs'[d] = dirs[d])
          /\ (me.pc \in {"txRename", "txRemoveOld"} /\ after.pc = "return")
                => /\ after.err
                   /\ d # NoDir => dirs'[d] = dirs[d]
          /\ (me.pc = "return" /\ me.failedAt \in {"rename", "removeOld"})
                => (d # NoDir => dirs'[d] = dirs[d])
    ]_vars

\* C5 as stated: when the mirror of a provider has returned, either it
\* returned a fragment and no error and the staging directory exists, or
\* it returned an error and no fragment and the staging directory does not
\* exist.
C5_MirrorOutcomeStrict ==
    \A n \in Providers :
        jobs[n].done =>
            \/ /\ jobs[n].returned # NoResult
               /\ ~jobs[n].err
               /\ dirs[CreateDir(n)].exists
            \/ /\ jobs[n].err
               /\ jobs[n].returned = NoResult
               /\ ~dirs[CreateDir(n)].exists

\* C5 amended: when the mirror of a provider has returned, either it
\* returned a fragment and no error and the staging directory exists, or
\* it returned an error and no fragment and the staging directory does not
\* exist unless removing it failed, in which case that failure was logged.
C5_MirrorOutcome ==
    \A n \in Providers :
        jobs[n].done =>
            \/ /\ jobs[n].returned # NoResult
               /\ ~jobs[n].err
               /\ dirs[CreateDir(n)].exists
            \/ /\ jobs[n].err
               /\ jobs[n].returned = NoResult
               /\ dirs[CreateDir(n)].exists => jobs[n].logged

\* C5 witness: one mirror has returned an error after its staging
\* directory could not be removed, another has returned a fragment.
C5_Witness ==
    /\ \E n \in Providers :
          jobs[n].done /\ jobs[n].err /\ jobs[n].logged /\ dirs[CreateDir(n)].exists
    /\ \E n \in Providers :
          jobs[n].done /\ ~jobs[n].err /\ jobs[n].returned = Fragment(n)

\* The fragments of the providers whose mirror succeeded, in configuration
\* order, from provider i on.
RECURSIVE SucceededFrom(_)
SucceededFrom(i) ==
    IF i > NumProviders THEN <<>>
    ELSE (IF jobs[i].done /\ ~jobs[i].err THEN <<Fragment(i)>> ELSE <<>>)
             \o SucceededFrom(i + 1)

\* C6: after process(), the manifest lists exactly one fragment for every
\* provider whose mirror succeeded and none for a provider whose mirror
\* failed, in configuration order.
C6_ManifestListsSucceeded ==
    pcMain = "done" => manifest.providers = SucceededFrom(1)

\* C7: after a run in mirror mode, the names the manifest lists are the
\* names that have an existing published directory.
C7_ManifestMatchesPublished ==
    (pcMain = "done" /\ mirrorMode) =>
        {manifest.providers[i].name : i \in DOMAIN manifest.providers}
            = {n \in Names : webLink[n] # NoDir /\ dirs[webLink[n]].exists}

\* C9: the provider "gone" was published by an earlier run and is not in
\* the configuration; after process() neither its publish path nor the
\* directory it pointed to exists.
C9_OrphanRemoved ==
    pcMain = "done" =>
        /\ webLink[GoneName] = NoDir
        /\ ~dirs[Old(GoneName)].exists

\* An entry removeOrphans is meant to reap: not named like a configured
\* provider, a symlink, to a directory, directly inside <folder>.
Reapable(e, ent) ==
    /\ ~Keep(e)
    /\ ent.kind = "symlink"
    /\ ent.tkind = "dir"
    /\ InOurFolder(ent)

\* C10: removeOrphans leaves every entry of the scanned directory as it is
\* (the entry and what it points to) unless the entry is a symlink to a
\* directory directly inside <folder> named unlike every configured
\* provider.
C10_OrphanFrame ==
    [][\A e \in TopNames :
          ~Reapable(e, webTop[e]) => webTop'[e] = webTop[e]]_vars

\* The names of the providers a list of fragments describes.
Listed(frags) == {frags[i].name : i \in DOMAIN frags}

\* C11: a failure of the mirror of provider a, at whatever step, does not
\* keep the job of another provider b from being handed to a worker and
\* run to its end, and if b's mirror succeeded b is in the manifest that
\* process() writes.
C11_FailureIsolated ==
    (pcMain = "done" /\ mirrorMode) =>
        \A a \in Providers, b \in Providers :
            (a # b /\ jobs[a].done /\ jobs[a].err) =>
                /\ jobs[b].done
                /\ ~jobs[b].err => b \in Listed(manifest.providers)

\* The providers some worker is mirroring.
Held == {i \in Providers : \E w \in Workers : workers[w].job = i}

\* C12: with cfg.Workers workers at most that many providers are being
\* mirrored at any time, and a job that process() has sent and whose
\* mirror has not returned is in the hands of a worker: the send completed
\* only by a worker receiving it, no job waits in a queue.
C12_PoolBounded ==
    /\ Cardinality(Held) <= nWorkers
    /\ mirrorMode =>
          \A i \in Providers : (i < next /\ ~jobs[i].done) => i \in Held

\* C12 witness: there are more providers than workers, every worker is
\* mirroring and process() waits with the next job.
C12_Witness ==
    /\ nWorkers < NumProviders
    /\ pcMain = "submit"
    /\ next <= NumProviders
    /\ Cardinality(Held) = nWorkers

\* C14: a provider name is in the hands of at most one worker, which took
\* its job from the channel once; no job is taken a second time, so no
\* second worker ever runs the commit on the same <folder>/<name> and
\* publish path.
C14_OneCommitterPerName ==
    \A n \in Providers :
        /\ jobs[n].received <= 1
        /\ Cardinality({w \in Workers : workers[w].job = n}) <= 1
        /\ n \in Held => (jobs[n].received = 1 /\ ~jobs[n].done)

\* C14 witness: two workers are inside the commit transaction at the same
\* time, each on its own provider.
C14_Witness ==
    \E w1 \in Workers, w2 \in Workers :
        /\ w1 # w2
        /\ workers[w1].pc \in BeforeSwap
        /\ workers[w2].pc \in BeforeSwap
        /\ workers[w1].job # workers[w2].job

\* After the barrier: process() assembles and writes the manifest.
PostJoin == pcMain \in {"assemble", "write", "done"}

\* The state part of C15: no job is received twice, and once process() is
\* past the barrier every worker has finished and every job has been
\* received once (and, in mirror mode, processed).
C15_State ==
    /\ \A i \in Providers : jobs[i].received <= 1
    /\ PostJoin =>
          /\ \A w \in 1 .. nWorkers : workers[w].pc = "exited"
          /\ \A i \in Providers :
                jobs[i].received = 1 /\ (mirrorMode => jobs[i].done)

\* The step part of C15: the err and result fields of a job change only in
\* a step of the worker that holds the job, before the barrier, and only
\* once.
C15_Step ==
    \A i \in Providers :
        (jobs'[i].err # jobs[i].err \/ jobs'[i].result # jobs[i].result
            \/ jobs'[i].done # jobs[i].done)
        => /\ ~PostJoin
           /\ ~jobs[i].done
           /\ \E w \in Workers : workers[w].job = i /\ workers'[w].job = 0

\* C15: every job is received and processed by one worker, once; its
\* fields are written only by that worker; process() reads them and
\* assembles and writes the manifest only after every worker has finished.
C15_JobOwnership == []C15_State /\ [][C15_Step]_vars

\* C15 witness: process() is past the barrier with a job whose mirror
\* failed and a job whose mirror succeeded.
C15_Witness ==
    /\ pcMain = "assemble"
    /\ \E i \in Providers : jobs[i].done /\ jobs[i].err
    /\ \E i \in Providers : jobs[i].done /\ ~jobs[i].err

\* C13: with at least one worker and mirror calls that return, process()
\* terminates: once the workers are started every job is received, the
\* channel is closed, every worker leaves its loop, the barrier is passed
\* and the manifest write is reached; the goroutines never all block.
C13_ProcessTerminates == (pcMain = "start") ~> (pcMain = "write")

\* C13 witness: the manifest write is reached after one worker has taken
\* every job of a configuration with more providers than workers.
C13_Witness ==
    /\ pcMain = "write"
    /\ nWorkers < NumProviders
    /\ \A i \in Providers : jobs[i].done
    /\ \A w \in 1 .. nWorkers : workers[w].pc = "exited"

\* ----------------------------------------------------------- configuration

\* The state while a function is examined on its own: process() has not
\* been called, no directory and no worker exists.
Standalone ==
    /\ nWorkers = 1
    /\ mirrorMode = FALSE
    /\ pcMain = "standalone"
    /\ next = 1
    /\ closed = FALSE
    /\ jobs = [i \in Providers |-> NewJob]
    /\ workers = [w \in Workers |-> IdleWorker("off")]
    /\ dirs = [d \in DirIds |-> Missing]
    /\ folderLink = [n \in Names |-> NoDir]
    /\ webLink = [n \in Names |-> NoDir]
    /\ webTop \in PlainTops
    /\ manifest = [run |-> "prev", providers |-> <<>>, tmp |-> "none"]
    /\ csafProviders = <<>>
    /\ prevLink = webLink

\* What a standalone call leaves alone.
OnlyCall ==
    UNCHANGED <<nWorkers, mirrorMode, pcMain, next, closed, jobs, workers, dirs,
                folderLink, webLink, webTop, manifest, csafProviders, prevLink>>

\* const defaultWorkers.
defaultWorkers == 10

\* Largest worker count, CPU count and provider count of the
\* configurations setDefaults is applied to.
MaxCount == 12

\* A faulty variant of setDefaults that forgets the number of providers.
SetDefaultsNoProviders(workersCfg, numProviders, numCPU) ==
    IF workersCfg <= 0
    THEN IF numCPU > defaultWorkers THEN defaultWorkers ELSE numCPU
    ELSE workersCfg

\* config.setDefaults: the value of c.Workers after the call, given its
\* value before, len(c.Providers) and runtime.NumCPU().
SetDefaults(workersCfg, numProviders, numCPU) ==
    IF workersCfg <= 0
    THEN LET n == IF numProviders < numCPU THEN numProviders ELSE numCPU
         IN IF n > defaultWorkers THEN defaultWorkers ELSE n
    ELSE workersCfg

\* A decoded configuration before setDefaults: the worker count it asks
\* for (0 when the key is absent), its number of providers and the number
\* of CPUs of the machine.
InitDefaults ==
    /\ Standalone
    /\ \E wk \in -1 .. MaxCount, np \in 0 .. MaxCount, cpu \in 1 .. MaxCount :
          call = [fn |-> "setDefaults", pc |-> "called", workers |-> wk,
                  providers |-> np, cpus |-> cpu, before |-> wk]

\* cfg.setDefaults() in loadConfig.
CallSetDefaults ==
    /\ call.fn = "setDefaults"
    /\ call.pc = "called"
    /\ call' = [call EXCEPT
                   !.pc = "returned",
                   !.workers = SetDefaults(call.workers, call.providers, call.cpus)]
    /\ OnlyCall

SpecDefaults == InitDefaults /\ [][CallSetDefaults]_vars

\* The least of a set of numbers.
Least(S) == CHOOSE m \in S : \A x \in S : m <= x

\* C16: after setDefaults a worker count that was 0 or less is the least
\* of the CPU count, the number of providers and 10; a worker count above
\* 0 is what it was, also when it exceeds 10 or the number of providers.
C16_DefaultWorkers ==
    (call.fn = "setDefaults" /\ call.pc = "returned") =>
        IF call.before <= 0
        THEN call.workers = Least({call.cpus, call.providers, 10})
        ELSE call.workers = call.before

\* C16 witness: a configuration without a worker count, with more than 10
\* providers on a machine with more than 10 CPUs, has got 10 workers.
C16_Witness ==
    /\ call.fn = "setDefaults"
    /\ call.pc = "returned"
    /\ call.before <= 0
    /\ call.cpus > 10
    /\ call.providers > 10
    /\ call.workers = 10

\* Longest provider list of the configurations loadConfig is applied to.
MaxListed == 3

\* The names and domains a [[providers]] entry can have; "" is a missing
\* or empty key.
CfgNames == {"", "a", "b"}
CfgDomains == {"", "d"}

\* The provider lists of at most MaxListed entries.
ProviderLists ==
    UNION {[1 .. k -> [name : CfgNames, domain : CfgDomains]] : k \in 0 .. MaxListed}

\* A faulty variant of checkProviders that never records a name as seen.
RECURSIVE CheckProvidersForgetful(_, _, _)
CheckProvidersForgetful(ps, i, already) ==
    IF i > Len(ps) THEN "none"
    ELSE IF ps[i].name = "" THEN "no name"
    ELSE IF ps[i].domain = "" THEN "no domain"
    ELSE IF ps[i].name \in already THEN "more than once"
    ELSE CheckProvidersForgetful(ps, i + 1, already)

\* config.checkProviders: the loop over c.Providers from entry i on, with
\* the set of the names seen so far; the result is the error it returns.
RECURSIVE CheckProviders(_, _, _)
CheckProviders(ps, i, already) ==
    IF i > Len(ps) THEN "none"
    ELSE IF ps[i].name = "" THEN "no name"
    ELSE IF ps[i].domain = "" THEN "no domain"
    ELSE IF ps[i].name \in already THEN "more than once"
    ELSE CheckProviders(ps, i + 1, already \cup {ps[i].name})

\* A faulty variant of check that lets a configuration without providers
\* pass.
CheckAllowsNone(ps, aggregatorValid) ==
    IF ~aggregatorValid THEN "aggregator"
    ELSE CheckProviders(ps, 1, {})

\* config.check: no providers, then c.Aggregator.Validate(), then
\* checkProviders.
Check(ps, aggregatorValid) ==
    IF Len(ps) = 0 THEN "no providers"
    ELSE IF ~aggregatorValid THEN "aggregator"
    ELSE CheckProviders(ps, 1, {})

\* A configuration file before loadConfig: whether it decodes, its worker
\* count, its providers, whether its aggregator section is valid, and the
\* number of CPUs of the machine.
InitLoad ==
    /\ Standalone
    /\ \E ps \in ProviderLists, dec \in BOOLEAN, valid \in BOOLEAN,
          wk \in -1 .. 1, cpu \in 1 .. 2 :
          call = [fn |-> "loadConfig", pc |-> "called", decodes |-> dec,
                  workers |-> wk, providers |-> ps, aggregatorValid |-> valid,
                  cpus |-> cpu, err |-> "none", providersErr |-> "none",
                  cfg |-> "nil"]

\* loadConfig: toml.DecodeFile, cfg.setDefaults(), cfg.check(); the
\* configuration is returned only without an error.  providersErr is what
\* checkProviders returns for the decoded providers.
LoadConfig ==
    /\ call.fn = "loadConfig"
    /\ call.pc = "called"
    /\ call' =
          IF ~call.decodes
          THEN [call EXCEPT !.pc = "returned", !.err = "decode"]
          ELSE LET err == Check(call.providers, call.aggregatorValid) IN
               [call EXCEPT
                   !.pc = "returned",
                   !.workers = SetDefaults(@, Len(call.providers), call.cpus),
                   !.err = err,
                   !.providersErr = CheckProviders(call.providers, 1, {}),
                   !.cfg = IF err = "none" THEN "cfg" ELSE "nil"]
    /\ OnlyCall

SpecLoad == InitLoad /\ [][LoadConfig]_vars

\* A provider list is well formed: every name and every domain is given
\* and no two entries have the same name.
WellFormed(ps) ==
    /\ \A i \in DOMAIN ps : ps[i].name # "" /\ ps[i].domain # ""
    /\ \A i \in DOMAIN ps, j \in DOMAIN ps : i # j => ps[i].name # ps[j].name

\* C17: check returns an error, and loadConfig no configuration, whenever
\* the provider list is empty, a name or a domain is empty or two
\* providers share a name; the providers pass (checkProviders returns no
\* error) exactly when the list is well formed, and check returns no error
\* exactly when the list is well formed and not empty and the aggregator
\* section is valid.
C17_ConfigCheck ==
    (call.fn = "loadConfig" /\ call.pc = "returned" /\ call.decodes) =>
        LET ps == call.providers IN
        /\ (Len(ps) = 0 \/ ~WellFormed(ps)) => (call.err # "none" /\ call.cfg = "nil")
        /\ call.providersErr = "none" <=> WellFormed(ps)
        /\ call.err = "none" <=>
              (WellFormed(ps) /\ Len(ps) > 0 /\ call.aggregatorValid)

\* C17 witness: a configuration whose only fault is that its third
\* provider has the name of its first is rejected.
C17_Witness ==
    /\ call.fn = "loadConfig"
    /\ call.pc = "returned"
    /\ call.decodes
    /\ call.aggregatorValid
    /\ Len(call.providers) = 3
    /\ \A i \in 1 .. 3 : call.providers[i].name # "" /\ call.providers[i].domain # ""
    /\ call.providers[1].name = call.providers[3].name
    /\ call.providers[1].name # call.providers[2].name
    /\ call.err = "more than once"
    /\ call.cfg = "nil"

\* ------------------------------------------------------- metadata locator

\* var providerMetadataLocations.
providerMetadataLocations ==
    <<".well-known/csaf", "security/data/csaf", "advisories/csaf", "security/csaf">>

\* What a server answers to a JSON GET: no such document, another error,
\* or a body that is not JSON, that is the JSON value null, or that is a
\* JSON document.
Answers == {"notfound", "error", "malformed", "null", "doc"}

\* What happens to the GET of .well-known/security.txt and to the reading
\* of its body: c.Get fails, the status is not 200, ExtractProviderURL
\* fails, it finds no URL, it finds one.
SecurityAnswers == {"geterror", "status", "unreadable", "nourl", "url"}

\* No parsed document (a nil interface{}).
NilDoc == "nil"

\* The document parsed from the body fetched from url.
DocFrom(url) == <<"doc", url>>

\* The closure download of locateProviderMetadata applied to the body found
\* at url: json.Decode into doc; a decoding error is logged and becomes
\* errNotFound.  The result is the error and the new value of doc.
Download(body, url, doc) ==
    IF body = "malformed" THEN [err |-> "notfound", doc |-> doc]
    ELSE IF body = "null" THEN [err |-> "none", doc |-> NilDoc]
    ELSE [err |-> "none", doc |-> DocFrom(url)]

\* downloadJSON(c, url, found): a JSON GET that returns errNotFound when
\* the document is not found, another error when the request fails, and
\* otherwise what found returns for the body.
DownloadJSON(answer, url, doc) ==
    IF answer = "notfound" THEN [err |-> "notfound", doc |-> doc]
    ELSE IF answer = "error" THEN [err |-> "error", doc |-> doc]
    ELSE Download(answer, url, doc)

\* The part of locateProviderMetadata after the loop: the GET of
\* security.txt, the first URL in it, and the download from that URL.
\* reqs are the URLs requested so far.
SecurityTxt(net, doc, reqs) ==
    LET reqs1 == Append(reqs, ".well-known/security.txt") IN
    IF net.security = "geterror"
    THEN [doc |-> NilDoc, url |-> "", err |-> "error", requests |-> reqs1]
    ELSE IF net.security = "status"
    THEN [doc |-> NilDoc, url |-> "", err |-> "none", requests |-> reqs1]
    ELSE IF net.security = "unreadable"
    THEN [doc |-> NilDoc, url |-> "", err |-> "error", requests |-> reqs1]
    ELSE IF net.security = "nourl"
    THEN [doc |-> NilDoc, url |-> "", err |-> "no provider-metadata.json",
          requests |-> reqs1]
    ELSE LET r == DownloadJSON(net.linked, "linked", doc)
             reqs2 == Append(reqs1, "linked")
         IN IF r.err # "none"
            THEN [doc |-> NilDoc, url |-> "", err |-> r.err, requests |-> reqs2]
            ELSE [doc |-> r.doc, url |-> "linked", err |-> "none", requests |-> reqs2]

\* A faulty variant of the loop that goes on to the next location after
\* any error.
RECURSIVE ProbeLenient(_, _, _, _)
ProbeLenient(net, i, doc, reqs) ==
    IF i > Len(providerMetadataLocations) THEN SecurityTxt(net, doc, reqs)
    ELSE LET url == providerMetadataLocations[i]
             r == DownloadJSON(net.probe[i], url, doc)
             reqs1 == Append(reqs, url)
         IN IF r.err # "none"
            THEN ProbeLenient(net, i + 1, r.doc, reqs1)
            ELSE IF r.doc # NilDoc
            THEN [doc |-> r.doc, url |-> url, err |-> "none", requests |-> reqs1]
            ELSE ProbeLenient(net, i + 1, r.doc, reqs1)

\* The loop of locateProviderMetadata over providerMetadataLocations from
\* location i on: errNotFound continues, another error is returned, a
\* document that is not nil is returned with its URL.
RECURSIVE Probe(_, _, _, _)
Probe(net, i, doc, reqs) ==
    IF i > Len(providerMetadataLocations) THEN SecurityTxt(net, doc, reqs)
    ELSE LET url == providerMetadataLocations[i]
             r == DownloadJSON(net.probe[i], url, doc)
             reqs1 == Append(reqs, url)
         IN IF r.err # "none"
            THEN IF r.err = "notfound"
                 THEN Probe(net, i + 1, r.doc, reqs1)
                 ELSE [doc |-> NilDoc, url |-> "", err |-> r.err, requests |-> reqs1]
            ELSE IF r.doc # NilDoc
            THEN [doc |-> r.doc, url |-> url, err |-> "none", requests |-> reqs1]
            ELSE Probe(net, i + 1, r.doc, reqs1)

\* processor.locateProviderMetadata(c, domain) against the answers net of
\* the domain.
LocateProviderMetadata(net) == Probe(net, 1, NilDoc, <<>>)

\* A domain: what it answers at each of the locations, for security.txt
\* and at the URL its security.txt names.
InitLocate ==
    /\ Standalone
    /\ \E probe \in [DOMAIN providerMetadataLocations -> Answers],
          security \in SecurityAnswers, linked \in Answers :
          call = [fn |-> "locateProviderMetadata", pc |-> "called",
                  net |-> [probe |-> probe, security |-> security, linked |-> linked],
                  out |-> [doc |-> NilDoc, url |-> "", err |-> "none", requests |-> <<>>]]

CallLocate ==
    /\ call.fn = "locateProviderMetadata"
    /\ call.pc = "called"
    /\ call' = [call EXCEPT !.pc = "returned", !.out = LocateProviderMetadata(call.net)]
    /\ OnlyCall

SpecLocate == InitLocate /\ [][CallLocate]_vars

\* The four locations in the order stated.
StatedLocations ==
    <<".well-known/csaf", "security/data/csaf", "advisories/csaf", "security/csaf">>

\* The probing order of a finished locateProviderMetadata call, where
\* onward is the set of answers on which it moves to the next location:
\* the requests are the four locations in order, as far as they go; a
\* location after the first is probed only when the one before answered
\* with one of onward, and is probed then; a document ends the call with
\* that document and its URL, another error ends it with an error;
\* security.txt is requested when, and only when, all four answered with
\* one of onward.
ProbesInOrder(onward) ==
    LET net == call.net
        out == call.out
        reqs == out.requests
        probed == IF Len(reqs) < 4 THEN Len(reqs) ELSE 4
    IN
    /\ probed >= 1
    /\ \A j \in 1 .. probed : reqs[j] = StatedLocations[j]
    /\ \A j \in 1 .. probed :
          /\ j < probed => net.probe[j] \in onward
          /\ (net.probe[j] \in onward /\ j < 4) => probed > j
          /\ net.probe[j] = "doc" =>
                /\ Len(reqs) = j
                /\ out = [doc |-> DocFrom(StatedLocations[j]),
                          url |-> StatedLocations[j], err |-> "none", requests |-> reqs]
          /\ net.probe[j] = "error" =>
                /\ Len(reqs) = j
                /\ out.err # "none"
                /\ out.doc = NilDoc
    /\ Len(reqs) > 4 <=> (probed = 4 /\ \A j \in 1 .. 4 : net.probe[j] \in onward)
    /\ Len(reqs) > 4 => reqs[5] = ".well-known/security.txt"

\* C18 as stated: locateProviderMetadata probes the four locations in
\* order, moves to the next location only on not-found or malformed JSON,
\* returns the first parsed document with its URL, fails at once on
\* another error, and requests security.txt only after all four probes
\* ended in not-found or malformed JSON.
C18_ProbeOrderStrict ==
    (call.fn = "locateProviderMetadata" /\ call.pc = "returned") =>
        ProbesInOrder({"notfound", "malformed"})

\* C18 amended: as stated, except that a location whose body is the JSON
\* value null also counts as not found: the call moves on to the next
\* location, or to security.txt after the fourth.
C18_ProbeOrder ==
    (call.fn = "locateProviderMetadata" /\ call.pc = "returned") =>
        ProbesInOrder({"notfound", "malformed", "null"})

\* C18 witness: the first three locations answer not found, malformed
\* JSON and null, the fourth has the document, which is returned after
\* four requests.
C18_Witness ==
    /\ call.fn = "locateProviderMetadata"
    /\ call.pc = "returned"
    /\ call.net.probe = <<"notfound", "malformed", "null", "doc">>
    /\ call.out.requests = StatedLocations
    /\ call.out.doc = DocFrom("security/csaf")
    /\ call.out.url = "security/csaf"

\* C19: locateProviderMetadata returns either a parsed document with the
\* URL it came from or an error, never no document and no error.
C19_DocumentOrError ==
    (call.fn = "locateProviderMetadata" /\ call.pc = "returned") =>
        \/ call.out.doc # NilDoc /\ call.out.url # "" /\ call.out.err = "none"
        \/ call.out.err # "none"

\* -------------------------------------------------------- policy denial

\* The values of $.mirror_on_CSAF_aggregators the claim is about.
NotPermitted == {"absent", "false"}

\* A mirror that was refused has done nothing but locate the metadata: no
\* catalog fetched, no advisory downloaded, no staging directory, no commit.
DeniedEarly ==
    \A w \in Workers :
        (workers[w].flag \in NotPermitted /\ workers[w].pc # "allowed") =>
            /\ workers[w].pc = "return"
            /\ workers[w].err
            /\ workers[w].failedAt = "allowed"
            /\ workers[w].did = <<"locate">>
            /\ workers[w].dir = NoDir
            /\ workers[w].res = NoResult
            /\ ~dirs[CreateDir(workers[w].job)].exists

\* What a refused mirror leaves behind, from its return on.
DeniedOutcome ==
    \A n \in Providers :
        jobs[n].denied =>
            /\ jobs[n].err
            /\ jobs[n].returned = NoResult
            /\ ~dirs[CreateDir(n)].exists
            /\ webLink[n] = prevLink[n]
            /\ webLink[n] # NoDir => dirs[webLink[n]] = Intact
            /\ n \notin Listed(csafProviders)
            /\ n \notin Listed(manifest.providers)

\* process() returns an error only from creating its directories, from
\* removing the orphans or from writing the manifest, never because of what
\* a job returned.
FailsOnlyOnItsOwn ==
    (pcMain' = "failed" /\ pcMain # "failed") => pcMain \in {"ensure", "orphans", "write"}

\* C20: when the provider metadata has no $.mirror_on_CSAF_aggregators or
\* has it false, the mirror returns an error before anything is fetched,
\* downloaded or committed; no staging directory remains, the provider is
\* not in the manifest, the snapshot published before is untouched, and no
\* error of a job makes process() fail.
C20_PolicyDenial == [](DeniedEarly /\ DeniedOutcome) /\ [][FailsOnlyOnItsOwn]_vars

\* C20 witness: process() has written the manifest after the mirror of a
\* provider with a published snapshot was refused.
C20_Witness ==
    /\ pcMain = "done"
    /\ \E n \in Providers : jobs[n].denied /\ prevLink[n] = Old(n)

\* ------------------------------------------------- advisory enumeration

\* Longest list of links of a feed entry.
MaxLinks == 3

\* Strings are sequences of pieces; "" is the empty sequence.  The piece
\* "%zz" is a bad percent escape: url.Parse fails on a string holding it.
Parses(u) == \A i \in DOMAIN u : u[i] # "%zz"

\* strings.ToLower.
ToLower(u) == [i \in DOMAIN u |-> IF u[i] = ".SHA512" THEN ".sha512" ELSE u[i]]

\* strings.HasSuffix.
HasSuffix(u, suffix) == Len(u) > 0 /\ u[Len(u)] = suffix

\* t.IsZero(); of the times 0 is the zero time, 1 an old and 2 a
\* recent one.
IsZero(t) == t = 0

\* AgeAccept: nil, or a function that accepts the times from since on.
Nil == [since |-> -1]
AgeAccept(f, t) == t >= f.since

\* processROLIE: the closure resolve(u), against the base URL of the feed.
Resolve(u) ==
    IF u = <<>> THEN <<>>
    ELSE IF ~Parses(u) THEN <<>>
    ELSE <<"https://p.test/">> \o u

\* processROLIE: the loop over entry.Link from link i on; found holds the
\* variables self, sha256, sha512 and sign.
RECURSIVE EntryLinks(_, _, _)
EntryLinks(links, i, found) ==
    IF i > Len(links) THEN found
    ELSE LET link == links[i]
             lower == ToLower(link.href)
         IN EntryLinks(links, i + 1,
                CASE link.rel = "self" -> [found EXCEPT !.self = Resolve(link.href)]
                  [] link.rel = "signature" -> [found EXCEPT !.sign = Resolve(link.href)]
                  [] link.rel = "hash" ->
                        IF HasSuffix(lower, ".sha256")
                        THEN [found EXCEPT !.sha256 = Resolve(link.href)]
                        ELSE IF HasSuffix(lower, ".sha512")
                        THEN [found EXCEPT !.sha512 = Resolve(link.href)]
                        ELSE found
                  [] OTHER -> found)

\* No file.
NoFile == [kind |-> "none", path |-> <<>>, sha256 |-> <<>>, sha512 |-> <<>>, sign |-> <<>>]

\* PlainAdvisoryFile{self, sha256, sha512, sign}.
PlainAdvisoryFile(self, sha256, sha512, sign) ==
    [kind |-> "plain", path |-> self, sha256 |-> sha256, sha512 |-> sha512, sign |-> sign]

\* A faulty variant of the entry callback that wants both hashes.
EntryFileBothHashes(ageAccept, entry) ==
    LET found == EntryLinks(entry.link, 1,
                     [self |-> <<>>, sha256 |-> <<>>, sha512 |-> <<>>, sign |-> <<>>])
    IN
    IF ageAccept # Nil /\ ~IsZero(entry.updated) /\ ~AgeAccept(ageAccept, entry.updated)
    THEN [step |-> "age", file |-> NoFile]
    ELSE IF found.self = <<>> THEN [step |-> "self", file |-> NoFile]
    ELSE IF found.sha256 = <<>> \/ found.sha512 = <<>> THEN [step |-> "hash", file |-> NoFile]
    ELSE IF found.sign = <<>> THEN [step |-> "sign", file |-> NoFile]
    ELSE [step |-> "file",
          file |-> PlainAdvisoryFile(found.self, found.sha256, found.sha512, found.sign)]

\* A faulty variant of the entry callback in which a zero updated time does
\* not bypass the filter.
EntryFileNoBypass(ageAccept, entry) ==
    LET found == EntryLinks(entry.link, 1,
                     [self |-> <<>>, sha256 |-> <<>>, sha512 |-> <<>>, sign |-> <<>>])
    IN
    IF ageAccept # Nil /\ ~AgeAccept(ageAccept, entry.updated)
    THEN [step |-> "age", file |-> NoFile]
    ELSE IF found.self = <<>> THEN [step |-> "self", file |-> NoFile]
    ELSE IF found.sha256 = <<>> /\ found.sha512 = <<>> THEN [step |-> "hash", file |-> NoFile]
    ELSE IF found.sign = <<>> THEN [step |-> "sign", file |-> NoFile]
    ELSE [step |-> "file",
          file |-> PlainAdvisoryFile(found.self, found.sha256, found.sha512, found.sign)]

\* processROLIE: the function passed to rfeed.Entries, for one entry.  The
\* result is the file appended to files, or none, and the step at which the
\* function returned.
EntryFile(ageAccept, entry) ==
    LET found == EntryLinks(entry.link, 1,
                     [self |-> <<>>, sha256 |-> <<>>, sha512 |-> <<>>, sign |-> <<>>])
    IN
    IF ageAccept # Nil /\ ~IsZero(entry.updated) /\ ~AgeAccept(ageAccept, entry.updated)
    THEN [step |-> "age", file |-> NoFile]
    ELSE IF found.self = <<>> THEN [step |-> "self", file |-> NoFile]
    ELSE IF found.sha256 = <<>> /\ found.sha512 = <<>> THEN [step |-> "hash", file |-> NoFile]
    ELSE IF found.sign = <<>> THEN [step |-> "sign", file |-> NoFile]
    ELSE [step |-> "file",
          file |-> PlainAdvisoryFile(found.self, found.sha256, found.sha512, found.sign)]

\* DirectoryAdvisoryFile{Path}: SHA256URL, SHA512URL and SignURL extend Path.
DirectoryAdvisoryFile(path) ==
    [kind |-> "directory", path |-> path, sha256 |-> path \o <<".sha256">>,
     sha512 |-> path \o <<".sha512">>, sign |-> path \o <<".asc">>]

\* loadChanges: the body of the loop for one record that was read.
RowFile(ageAccept, base, row) ==
    IF row.fields < 2 THEN [step |-> "fields", file |-> NoFile]
    ELSE IF ~row.stamped THEN [step |-> "time", file |-> NoFile]
    ELSE IF ageAccept # Nil /\ ~AgeAccept(ageAccept, row.t)
    THEN [step |-> "age", file |-> NoFile]
    ELSE IF ~Parses(row.path) THEN [step |-> "url", file |-> NoFile]
    ELSE [step |-> "file", file |-> DirectoryAdvisoryFile(base \o row.path)]

\* A feed entry or a changes.csv record, and the AgeAccept of the processor.
InitEntries ==
    LET
        \* time.Time values: 0 is the zero time, 1 an old and 2 a recent one.
        Times == 0 .. 2
        \* type Link: Rel and HRef.  The links of the entries examined: self and
        \* signature links with no, an unparsable and a good href, hash links with
        \* every href.
        Links ==
            [rel : {"self", "signature"}, href : {<<>>, <<"%zz">>, <<"a", ".json">>}]
                \cup [rel : {"hash"},
                      href : {<<>>, <<"%zz">>, <<"a", ".json">>, <<"a", ".json", ".sha256">>,
                              <<"a", ".json", ".SHA512">>, <<"%zz", ".sha256">>}]
        \* The values of AgeAccept.
        AgeAccepts == {Nil} \cup {[since |-> s] : s \in 1 .. 2}
        \* The records of a changes.csv: the number of fields, whether field 1
        \* parses as an RFC 3339 time and as which, and field 0.
        Rows ==
            [fields : 1 .. 2, stamped : BOOLEAN, t : Times,
             path : {<<"x", ".json">>, <<"%zz">>}]
    IN
    /\ Standalone
    /\ \E ageAccept \in AgeAccepts :
          \/ \E links \in UNION {[1 .. n -> Links] : n \in 0 .. MaxLinks},
                   updated \in Times :
                call = [fn |-> "entry", pc |-> "called", ageAccept |-> ageAccept,
                        entry |-> [updated |-> updated, link |-> links],
                        out |-> [step |-> "-", file |-> NoFile]]
          \/ \E row \in Rows :
                call = [fn |-> "row", pc |-> "called", ageAccept |-> ageAccept,
                        base |-> <<"https://p.test/">>, row |-> row,
                        out |-> [step |-> "-", file |-> NoFile]]

\* rfeed.Entries calls the function for an entry.
CallEntry ==
    /\ call.fn = "entry"
    /\ call.pc = "called"
    /\ call' = [call EXCEPT !.pc = "returned",
                            !.out = EntryFile(call.ageAccept, call.entry)]
    /\ OnlyCall

\* loadChanges handles a record.
CallRow ==
    /\ call.fn = "row"
    /\ call.pc = "called"
    /\ call' = [call EXCEPT !.pc = "returned",
                            !.out = RowFile(call.ageAccept, call.base, call.row)]
    /\ OnlyCall

SpecEntries == InitEntries /\ [][CallEntry \/ CallRow]_vars

\* The entry has a link of this rel whose href, in lower case, ends in
\* suffix (any href when suffix is "").
LinksOf(links, rel, suffix) ==
    {i \in DOMAIN links :
        /\ links[i].rel = rel
        /\ suffix # "" => HasSuffix(ToLower(links[i].href), suffix)}

HasLink(links, rel, suffix) == LinksOf(links, rel, suffix) # {}

\* The last link of this kind carries a URL that is not empty and parses.
LastUsable(links, rel, suffix) ==
    LET S == LinksOf(links, rel, suffix) IN
    /\ S # {}
    /\ LET last == CHOOSE i \in S : \A j \in S : j <= i
       IN links[last].href # <<>> /\ Parses(links[last].href)

\* The entry passes the age filter.
PassesAge(ageAccept, updated) ==
    ageAccept = Nil \/ IsZero(updated) \/ updated >= ageAccept.since

\* C21 as stated: an advisory file is emitted for a feed entry if and only
\* if the entry has a self link, a .sha256 or a .sha512 hash link and a
\* signature link, and passes the age filter.
C21_EntryEmittedStrict ==
    (call.fn = "entry" /\ call.pc = "returned") =>
        LET links == call.entry.link IN
        (call.out.file # NoFile) <=>
            /\ HasLink(links, "self", "")
            /\ HasLink(links, "hash", ".sha256") \/ HasLink(links, "hash", ".sha512")
            /\ HasLink(links, "signature", "")
            /\ PassesAge(call.ageAccept, call.entry.updated)

\* C21 amended: a link counts when it is the last of its kind and carries
\* a URL that is not empty and parses.  An advisory file is emitted if and
\* only if the entry passes the age filter and has such a self link, such a
\* .sha256 or .sha512 hash link and such a signature link; the file carries
\* the resolved URLs.  An entry without such a self link is skipped, one
\* with it and neither hash is dropped, one with a hash and no signature is
\* dropped; one hash is enough.
C21_EntryEmitted ==
    (call.fn = "entry" /\ call.pc = "returned") =>
        LET links == call.entry.link
            self == LastUsable(links, "self", "")
            h256 == LastUsable(links, "hash", ".sha256")
            h512 == LastUsable(links, "hash", ".sha512")
            sign == LastUsable(links, "signature", "")
            out == call.out
        IN
        /\ (out.file # NoFile) <=>
              (PassesAge(call.ageAccept, call.entry.updated)
                  /\ self /\ (h256 \/ h512) /\ sign)
        /\ out.file # NoFile =>
              /\ out.file.kind = "plain"
              /\ out.file.path # <<>> /\ out.file.sign # <<>>
              /\ (out.file.sha256 # <<>>) <=> h256
              /\ (out.file.sha512 # <<>>) <=> h512
        /\ PassesAge(call.ageAccept, call.entry.updated) =>
              /\ out.step = "self" <=> ~self
              /\ out.step = "hash" <=> (self /\ ~h256 /\ ~h512)
              /\ out.step = "sign" <=> (self /\ (h256 \/ h512) /\ ~sign)

\* C21 witness: an entry with a self link, a signature link and the one
\* hash link a.json.SHA512 came out as a file without a SHA-256 URL.
C21_Witness ==
    /\ call.fn = "entry" /\ call.pc = "returned"
    /\ call.out.file # NoFile
    /\ call.out.file.sha256 = <<>>
    /\ call.out.file.sha512 = <<"https://p.test/", "a", ".json", ".SHA512">>

\* C22: without AgeAccept no feed entry and no changes.csv record is
\* filtered by age; with AgeAccept a feed entry is filtered out exactly
\* when its updated time is not zero and AgeAccept rejects it, and a
\* record (one with two fields and a time that parses) exactly when
\* AgeAccept rejects its time, the zero time included.
C22_AgeFilter ==
    /\ (call.fn = "entry" /\ call.pc = "returned") =>
          (call.out.step = "age") <=>
              /\ call.ageAccept # Nil
              /\ call.entry.updated # 0
              /\ call.entry.updated < call.ageAccept.since
    /\ (call.fn = "row" /\ call.pc = "returned") =>
          (call.out.step = "age") <=>
              /\ call.row.fields >= 2 /\ call.row.stamped
              /\ call.ageAccept # Nil
              /\ call.row.t < call.ageAccept.since

\* C22 witness: with AgeAccept set, an entry with a zero updated time came
\* out as a file.
C22_Witness ==
    /\ call.fn = "entry" /\ call.pc = "returned"
    /\ call.ageAccept # Nil
    /\ call.entry.updated = 0
    /\ call.out.file # NoFile

\* ------------------------------------------------------ Process (catalogs)

\* Most ROLIE feeds of a provider metadata document.
MaxFeeds == 2

\* Most directory URLs of a provider metadata document.
MaxDirs == 2

\* fn(label, files), the callback of Process: the call is recorded; the
\* call number afp.failAt returns an error.
Fn(afp, out, label, files) ==
    [out EXCEPT !.calls = Append(@, [label |-> label, files |-> files]),
                !.err = (Len(out.calls) + 1 = afp.failAt)]

\* processROLIE: the files of the entries of a feed from entry i on.
RECURSIVE FeedFiles(_, _, _)
FeedFiles(afp, entries, i) ==
    IF i > Len(entries) THEN <<>>
    ELSE LET e == EntryFile(afp.ageAccept, entries[i])
         IN (IF e.file = NoFile THEN <<>> ELSE <<e.file>>) \o FeedFiles(afp, entries, i + 1)

\* processROLIE(labeledFeeds, fn) from feed i on.
RECURSIVE ProcessROLIE(_, _, _, _)
ProcessROLIE(afp, labeledFeeds, i, out) ==
    IF i > Len(labeledFeeds) THEN out
    ELSE LET feed == labeledFeeds[i] IN
         IF feed.url # "ok" THEN ProcessROLIE(afp, labeledFeeds, i + 1, out)
         ELSE LET asked == [out EXCEPT !.trace = Append(@, "feed")] IN
              IF feed.get # "ok" THEN ProcessROLIE(afp, labeledFeeds, i + 1, asked)
              ELSE LET files == FeedFiles(afp, feed.entries, 1)
                       label == IF feed.label = "nil" THEN "unknown" ELSE feed.label
                       called == Fn(afp, asked, label, files)
                   IN IF called.err THEN called
                      ELSE ProcessROLIE(afp, labeledFeeds, i + 1, called)

\* loadChanges: the files of the records from record i on.
RECURSIVE ChangesFiles(_, _, _, _)
ChangesFiles(afp, base, rows, i) ==
    IF i > Len(rows) THEN <<>>
    ELSE LET r == RowFile(afp.ageAccept, base, rows[i])
         IN (IF r.file = NoFile THEN <<>> ELSE <<r.file>>)
                \o ChangesFiles(afp, base, rows, i + 1)

\* loadChanges(baseURL, lg): an error, or the files.
LoadChanges(afp, baseURL, out) ==
    LET called == [out EXCEPT !.trace = Append(@, "loadChanges")] IN
    IF ~Parses(baseURL) THEN [called EXCEPT !.err = TRUE]
    ELSE LET answer == afp.changes[baseURL]
         IN IF answer.get # "ok" THEN [called EXCEPT !.err = TRUE]
            ELSE [called EXCEPT !.files = ChangesFiles(afp, baseURL, answer.rows, 1)]

\* empty(arr).
empty(arr) == \A i \in DOMAIN arr : arr[i] = <<>>

\* Process: the loop over the feeds of the distributions, from
\* distribution g on, whose feeds start after the first skip feeds.
RECURSIVE ProcessFeeds(_, _, _, _, _)
ProcessFeeds(afp, rolie, g, skip, out) ==
    IF g > Len(rolie.sizes) THEN out
    ELSE LET feed == SubSeq(rolie.feeds, skip + 1, skip + rolie.sizes[g])
             done == ProcessROLIE(afp, feed, 1, out)
         IN IF done.err THEN done
            ELSE ProcessFeeds(afp, rolie, g + 1, skip + rolie.sizes[g], done)

\* Process: the loop over dirURLs from URL i on.
RECURSIVE ProcessDirectories(_, _, _, _)
ProcessDirectories(afp, dirURLs, i, out) ==
    IF i > Len(dirURLs) THEN out
    ELSE IF dirURLs[i] = <<>> THEN ProcessDirectories(afp, dirURLs, i + 1, out)
    ELSE LET loaded == LoadChanges(afp, dirURLs[i], out) IN
         IF loaded.err THEN loaded
         ELSE LET called == Fn(afp, [loaded EXCEPT !.files = <<>>], "WHITE", loaded.files)
              IN IF called.err THEN called
                 ELSE ProcessDirectories(afp, dirURLs, i + 1, called)

\* Process: the directory URLs of the metadata, or the base URL of the
\* metadata when there is none.
DirURLs(afp, doc) ==
    LET dirURLs == IF doc.dirs.eval = "ok" THEN doc.dirs.urls ELSE <<>>
    IN IF empty(dirURLs) THEN <<afp.base>> ELSE dirURLs

\* AdvisoryFileProcessor.Process(fn): the error it returns, the calls of fn
\* and the catalogs it asked for.
Process(afp, doc) ==
    LET out == [err |-> FALSE, calls |-> <<>>, trace |-> <<>>, files |-> <<>>]
        rolie == doc.rolie
        hasRolie == rolie.eval = "bad" \/ (rolie.eval = "ok" /\ Len(rolie.sizes) > 0)
    IN
    IF rolie.eval = "error" THEN [out EXCEPT !.err = TRUE]
    ELSE IF hasRolie
    THEN IF rolie.eval = "bad" THEN [out EXCEPT !.err = TRUE]
         ELSE ProcessFeeds(afp, rolie, 1, 0, out)
    ELSE ProcessDirectories(afp, DirURLs(afp, doc), 1, out)

\* A provider metadata document with what its catalogs answer, and the
\* processor: its AgeAccept, its base URL and the call of fn that fails (0
\* when none does).
InitProcess ==
    LET
        \* type Feed of the metadata with what its URL answers: the URL is nil,
        \* unparsable or good; the request fails, answers with a status other than
        \* 200, with a body LoadROLIEFeed rejects, or with a feed.  The feeds
        \* served are an empty one and one with a complete entry and an entry that
        \* has a self link only.
        Feeds ==
            LET good == [updated |-> 2,
                         link |-> <<[rel |-> "self", href |-> <<"a", ".json">>],
                                    [rel |-> "hash", href |-> <<"a", ".json", ".sha256">>],
                                    [rel |-> "signature", href |-> <<"a", ".json">>]>>]
                bare == [updated |-> 2, link |-> <<[rel |-> "self", href |-> <<"a", ".json">>]>>]
            IN
            [url : {"nil", "bad"}, get : {"-"}, entries : {<<>>}, label : {"nil"}]
                \cup [url : {"ok"}, get : {"geterror", "status", "unparsable"},
                      entries : {<<>>}, label : {"nil"}]
                \cup [url : {"ok"}, get : {"ok"}, entries : {<<>>, <<good, bare>>},
                      label : {"nil", "RED"}]
        \* What $.distributions[*].rolie.feeds gives for a metadata document: an
        \* error, something that is no list, or one list of feeds per distribution
        \* that has the member (at most two distributions have it), here as the
        \* sizes of these lists and the feeds of all of them in order.  "bad" is a
        \* list that does not unmarshal as feeds.
        Rolies ==
            [eval : {"error", "nolist", "bad"}, sizes : {<<>>}, feeds : {<<>>}]
                \cup {[eval |-> "ok", sizes |-> s, feeds |-> f] :
                         s \in {<<>>, <<0>>, <<0, 0>>}, f \in {<<>>}}
                \cup UNION {{[eval |-> "ok", sizes |-> s, feeds |-> f] :
                                s \in {<<n>>, <<n, 0>>, <<0, n>>}, f \in [1 .. n -> Feeds]} :
                            n \in 1 .. MaxFeeds}
                \cup UNION {{[eval |-> "ok", sizes |-> <<k, n - k>>, feeds |-> f] :
                                k \in 1 .. n - 1, f \in [1 .. n -> Feeds]} :
                            n \in 2 .. MaxFeeds}
        \* The base URLs of directories: none, one url.Parse rejects, two good ones.
        Bases == {<<>>, <<"%zz">>, <<"https://d.test/">>, <<"https://p.test/">>}
        \* What <base>/changes.csv answers: the request fails, a status other than
        \* 200, records the csv reader fails on, or records.
        Changes ==
            [get : {"geterror", "status", "csverror"}, rows : {<<>>}]
                \cup [get : {"ok"},
                      rows : {<<>>,
                              <<[fields |-> 2, stamped |-> TRUE, t |-> 2, path |-> <<"x", ".json">>],
                                [fields |-> 2, stamped |-> TRUE, t |-> 1, path |-> <<"x", ".json">>],
                                [fields |-> 1, stamped |-> TRUE, t |-> 2, path |-> <<"x", ".json">>]>>}]
        \* What $.distributions[*].directory_url gives: an error, values that are
        \* not strings, or the URLs.
        Dirs ==
            [eval : {"error", "nostrings"}, urls : {<<>>}]
                \cup [eval : {"ok"}, urls : UNION {[1 .. n -> Bases] : n \in 0 .. MaxDirs}]
    IN
    /\ Standalone
    /\ \E ageAccept \in {Nil, [since |-> 2]}, failAt \in 0 .. MaxFeeds,
          rolie \in Rolies, durls \in Dirs,
          changes \in [{<<"https://d.test/">>, <<"https://p.test/">>} -> Changes] :
          /\ (rolie.eval \in {"error", "bad"} \/ Len(rolie.sizes) > 0) =>
                /\ durls = [eval |-> "ok", urls |-> <<<<"https://d.test/">>>>]
                /\ \A b \in DOMAIN changes : changes[b] = [get |-> "ok", rows |-> <<>>]
          /\ call = [fn |-> "Process", pc |-> "called",
                     afp |-> [ageAccept |-> ageAccept, failAt |-> failAt,
                              base |-> <<"https://p.test/">>, changes |-> changes],
                     doc |-> [rolie |-> rolie, dirs |-> durls],
                     out |-> [err |-> FALSE, calls |-> <<>>, trace |-> <<>>, files |-> <<>>]]

\* afp.Process(w.mirrorFiles).
CallProcess ==
    /\ call.fn = "Process"
    /\ call.pc = "called"
    /\ call' = [call EXCEPT !.pc = "returned", !.out = Process(call.afp, call.doc)]
    /\ OnlyCall

SpecProcess == InitProcess /\ [][CallProcess]_vars

\* Process went to the directories: it called loadChanges.
DirectoryUsed == \E i \in DOMAIN call.out.trace : call.out.trace[i] = "loadChanges"

\* Every batch handed to fn carries WHITE and holds only directory files
\* whose hash and signature URLs are the URL of the file with .sha256,
\* .sha512 and .asc appended.
DirectoryBatches ==
    \A k \in DOMAIN call.out.calls :
        LET batch == call.out.calls[k] IN
        /\ batch.label = "WHITE"
        /\ \A j \in DOMAIN batch.files :
              LET f == batch.files[j] IN
              /\ f.kind = "directory"
              /\ f.sha256 = f.path \o <<".sha256">>
              /\ f.sha512 = f.path \o <<".sha512">>
              /\ f.sign = f.path \o <<".asc">>

\* C23: the directories are used if and only if the metadata has no ROLIE
\* feeds, and then every batch is a WHITE batch of directory files.
\* (Stated for the documents for which the evaluation of
\* $.distributions[*].rolie.feeds gives feeds or nothing.)
C23_DirectoryIffNoFeedsStrict ==
    (call.fn = "Process" /\ call.pc = "returned"
        /\ call.doc.rolie.eval \in {"ok", "nolist"}) =>
        /\ DirectoryUsed <=> Len(call.doc.rolie.feeds) = 0
        /\ DirectoryUsed => DirectoryBatches

MaxFiles == 2

\* sha256.New() / sha512.New() after the bytes written to them: Sum(nil).
Sum(alg, written) == [alg |-> alg, of |-> written]

\* A faulty variant that does not reset the buffer.
HashedNoReset(content, read) ==
    [content |-> content \o read, s256 |-> read, s512 |-> read]

\* mirrorFiles: s256 and s512 are new, content.Reset(), and the bytes the
\* parser reads go through io.MultiWriter(s256, s512, &content).
Hashed(content, read) ==
    [content |-> read, s256 |-> read, s512 |-> read]

\* A faulty variant of downloadSignatureOrSign that signs only when the
\* signature was not found and otherwise goes on without one.
DownloadSignatureOrSignNotFound(sig, key, signRing) ==
    LET R(err, asc, ring, loaded) ==
            [err |-> err, asc |-> asc, signRing |-> ring, loaded |-> loaded]
    IN
    IF sig = "served" THEN R(FALSE, "upstream", signRing, FALSE)
    ELSE IF sig # "notfound" THEN R(FALSE, "", signRing, FALSE)
    ELSE IF signRing THEN R(FALSE, "own", TRUE, FALSE)
    ELSE IF key = "bad" THEN R(TRUE, "", FALSE, TRUE)
    ELSE IF key = "none" THEN R(FALSE, "", FALSE, FALSE)
    ELSE R(FALSE, "own", TRUE, TRUE)

\* A faulty variant of downloadSignatureOrSign whose sign does not keep
\* the key ring it built.
DownloadSignatureOrSignForgetful(sig, key, signRing) ==
    LET R(err, asc, ring, loaded) ==
            [err |-> err, asc |-> asc, signRing |-> ring, loaded |-> loaded]
    IN
    IF sig = "served" THEN R(FALSE, "upstream", signRing, FALSE)
    ELSE IF key = "bad" THEN R(TRUE, "", FALSE, TRUE)
    ELSE IF key = "none" THEN R(FALSE, "", FALSE, FALSE)
    ELSE R(FALSE, "own", FALSE, TRUE)

\* downloadSignatureOrSign with downloadSignature and sign.  sig is what
\* the signature URL answers: "served" an armored message, "notfound" a
\* status other than 200, "geterror" no answer, "garbage" a body that is no
\* armored message.  key is the private key of the configuration: "none",
\* "good", or "bad" when loading or unlocking it fails.  The result is the
\* error, the content of the .asc file ("" when none is written), whether
\* w.signRing is set, and whether the call loaded a private key to unlock
\* it and build a key ring.
DownloadSignatureOrSign(sig, key, signRing) ==
    LET R(err, asc, ring, loaded) ==
            [err |-> err, asc |-> asc, signRing |-> ring, loaded |-> loaded]
    IN
    IF sig = "served" THEN R(FALSE, "upstream", signRing, FALSE)
    ELSE IF signRing THEN R(FALSE, "own", TRUE, FALSE)
    ELSE IF key = "bad" THEN R(TRUE, "", FALSE, TRUE)
    ELSE IF key = "none" THEN R(FALSE, "", FALSE, FALSE)
    ELSE R(FALSE, "own", TRUE, TRUE)

\* The fates of an advisory in the loop of mirrorFiles that make the loop
\* continue before the download and after it.
SkippedEarly == {"urlparse", "ignored", "filename"}
SkippedLate == {"download", "schemaerror", "invalid", "rverror", "rvinvalid", "summary"}

\* No digest file.
NoSum == Sum("none", <<>>)

\* mirrorFiles: one pass of the loop, for the file named name.  st holds
\* what lives across the passes: the buffer content, w.signRing, the local
\* summaries, the files in the staging directory (each under the year
\* directory of its label), whether <dir>/<label> exists, the error
\* mirrorFiles returns, and how often a private key was loaded.
MirrorOne(st, name, f, key) ==
    IF f.fate \in SkippedEarly THEN st
    ELSE
    LET h == Hashed(st.content, f.body)
        read == [st EXCEPT !.content = h.content]
    IN
    IF f.fate \in SkippedLate THEN read
    ELSE
    LET sum == [filename |-> name, current |-> f.current, year |-> f.year]
        data == read.content
        made == [read EXCEPT !.summaries = Append(@, sum), !.labelDir = TRUE]
        sig == DownloadSignatureOrSign(f.sig, key, st.signRing)
        signed == [made EXCEPT !.loads = @ + (IF sig.loaded THEN 1 ELSE 0),
                               !.signs = @ + (IF f.sig # "served" THEN 1 ELSE 0)]
        file == [name |-> name, year |-> f.year, data |-> data,
                 sha256 |-> Sum("sha256", h.s256),
                 sha512 |-> Sum("sha512", h.s512), asc |-> ""]
    IN
    IF f.fate = "mkdir"
    THEN [read EXCEPT !.summaries = Append(@, sum), !.err = TRUE]
    ELSE IF f.fate = "write"
    THEN [made EXCEPT !.err = TRUE,
                      !.staged = @ \cup {[file EXCEPT !.sha256 = NoSum, !.sha512 = NoSum]}]
    ELSE IF sig.err \/ (f.fate = "writeasc" /\ sig.asc # "")
    THEN [signed EXCEPT !.err = TRUE, !.staged = @ \cup {file}]
    ELSE [signed EXCEPT !.staged = @ \cup {[file EXCEPT !.asc = sig.asc]},
                        !.signRing = sig.signRing]

\* sort.SliceStable by CurrentReleaseDate, latest first: x goes behind the
\* summaries of s that are not older.
RECURSIVE SliceStable(_, _, _)
SliceStable(ss, i, s) ==
    IF i > Len(ss) THEN s
    ELSE LET k == Cardinality({j \in DOMAIN s : s[j].current >= ss[i].current})
         IN SliceStable(ss, i + 1, SubSeq(s, 1, k) \o <<ss[i]>> \o SubSeq(s, k + 1, Len(s)))

\* CurrentReleaseDate.Format(time.RFC3339): the text of a time.
Format(t) == <<"T", ToString(t)>>

\* strconv.Itoa(s.summary.InitialReleaseDate.Year()) + "/" + s.filename;
\* the advisory named n has the file name n.json.
YearFile(s) == <<ToString(s.year), "/", ToString(s.filename), ".json">>

\* writeCSV: the records of changes.csv, from a sorted copy of the
\* summaries.
WriteCSV(summaries) ==
    LET ss == SliceStable(summaries, 1, <<>>)
    IN [i \in DOMAIN ss |-> <<Format(ss[i].current), YearFile(ss[i])>>]

\* A faulty variant of writeIndex that sees the summaries as writeCSV
\* sorted them.
WriteIndexSorted(summaries) ==
    LET ss == SliceStable(summaries, 1, <<>>)
    IN [i \in DOMAIN ss |-> YearFile(ss[i])]

\* writeIndex: the lines of index.txt.
WriteIndex(summaries) == [i \in DOMAIN summaries |-> YearFile(summaries[i])]

\* The entries of the feed of the label "white" of the provider "p":
\* Updated is the current release date, the self link and Content.Src are
\* csafURL.
Entries(summaries) ==
    [i \in DOMAIN summaries |->
        [filename |-> summaries[i].filename,
         current |-> summaries[i].current,
         href |-> <<"https://agg.test", "./well-known/csaf-aggregator/", "p/", "white/">>
                     \o YearFile(summaries[i])]]

\* A faulty variant of writeROLIE that stamps the entries with the time of
\* the run.
WriteROLIEStamped(summaries, now) ==
    [updated |-> now,
     entry |-> SliceStable([i \in DOMAIN summaries |->
                               [Entries(summaries)[i] EXCEPT !.current = now]],
                           1, <<>>)]

\* writeROLIE: the feed document, its Updated set to time.Now() and its
\* entries sorted by SortEntriesByUpdated, latest first.
WriteROLIE(summaries, now) ==
    [updated |-> now, entry |-> SliceStable(Entries(summaries), 1, <<>>)]

\* The worker before the first pass of the loop.
NewMirror ==
    [content |-> <<>>, signRing |-> FALSE, summaries |-> <<>>, staged |-> {},
     labelDir |-> FALSE, err |-> FALSE, loads |-> 0, signs |-> 0]

\* Nothing written by writeIndices.
NoIndices == [csv |-> <<>>, index |-> <<>>, feed |-> [updated |-> 0, entry |-> <<>>]]

\* A batch of advisory files with what becomes of each in the loop, the
\* body its URL serves, the current release date and the year of the
\* initial release date of its summary and what its signature URL answers;
\* and the private key of the configuration.
InitMirrorFiles ==
    LET Kinds ==
            [fate : SkippedEarly, body : {<<>>}, current : {0}, year : {0}, sig : {"-"}]
                \cup [fate : SkippedLate, body : {<<9>>}, current : {0}, year : {0},
                      sig : {"-"}]
                \cup [fate : {"mkdir", "write"}, body : {<<1>>}, current : {1}, year : {1},
                      sig : {"-"}]
                \cup [fate : {"writeasc"}, body : {<<1>>}, current : {1}, year : {1},
                      sig : {"served"}]
                \cup [fate : {"ok"}, body : {<<1>>, <<1, 2>>}, current : 1 .. 2, year : {1},
                      sig : {"served", "notfound", "geterror", "garbage"}]
                \cup [fate : {"ok"}, body : {<<1>>}, current : 1 .. 2, year : {2},
                      sig : {"served", "notfound"}]
    IN
    /\ Standalone
    /\ \E files \in UNION {[1 .. n -> Kinds] : n \in 0 .. MaxFiles},
          key \in {"none", "good", "bad"} :
          call = [fn |-> "mirrorFiles", pc |-> "loop", files |-> files, key |-> key,
                  i |-> 1, st |-> NewMirror, stored |-> <<>>, out |-> NoIndices,
                  round |-> 1, first |-> [st |-> NewMirror, out |-> NoIndices]]

\* mirrorFiles: a pass of the loop; an error ends mirrorFiles and with it
\* the mirror.
MirrorFile ==
    /\ call.fn = "mirrorFiles"
    /\ call.pc = "loop"
    /\ call.i <= Len(call.files)
    /\ LET st == MirrorOne(call.st, call.i, call.files[call.i], call.key)
       IN call' = [call EXCEPT !.st = st, !.i = @ + 1,
                               !.pc = IF st.err THEN "failed" ELSE "loop"]
    /\ OnlyCall

\* mirrorFiles after the loop: w.summaries[label] = summaries; return nil.
MirrorFilesReturn ==
    /\ call.fn = "mirrorFiles"
    /\ call.pc = "loop"
    /\ call.i > Len(call.files)
    /\ call' = [call EXCEPT !.pc = "indices", !.stored = call.st.summaries]
    /\ OnlyCall

\* writeIndices for the label of the batch: os.Create of
\* <dir>/<label>/changes.csv fails when no pass created <dir>/<label>;
\* otherwise changes.csv, index.txt and the feed are written.  (Failures of
\* the disk are left to the action WriteIndices of the mirror.)
WriteLabelIndices ==
    /\ call.fn = "mirrorFiles"
    /\ call.pc = "indices"
    /\ IF ~call.st.labelDir
       THEN call' = [call EXCEPT !.pc = "failed", !.st.err = TRUE]
       ELSE \E now \in 1 .. 2 :
               call' = [call EXCEPT !.pc = "done",
                                    !.out = [csv |-> WriteCSV(call.stored),
                                             index |-> WriteIndex(call.stored),
                                             feed |-> WriteROLIE(call.stored, now)]]
    /\ OnlyCall

\* The mirror of the provider runs a second time, in a new process against
\* the same upstream answers.
Rerun ==
    /\ call.fn = "mirrorFiles"
    /\ call.pc \in {"done", "failed"}
    /\ call.round = 1
    /\ call' = [call EXCEPT !.round = 2, !.pc = "loop", !.i = 1, !.st = NewMirror,
                            !.stored = <<>>, !.out = NoIndices,
                            !.first = [st |-> call.st, out |-> call.out]]
    /\ OnlyCall

SpecMirrorFiles ==
    InitMirrorFiles /\ [][MirrorFile \/ MirrorFilesReturn \/ WriteLabelIndices]_vars

SpecTwice ==
    InitMirrorFiles /\ [][MirrorFile \/ MirrorFilesReturn \/ WriteLabelIndices \/ Rerun]_vars

\* ---- claims about mirrorFiles ----

\* The files of the batch the loop has passed.
Passed == 1 .. (call.i - 1)

\* C25: an advisory that fails one of the checks of mirrorFiles leaves no
\* file and no summary and the loop goes on with the next file; and a
\* batch in which nothing but such checks fails does not fail the mirror:
\* the provider is published with the advisories that remain.
C25_BadAdvisorySkipped ==
    call.fn = "mirrorFiles" =>
        /\ \A k \in Passed :
              call.files[k].fate \in SkippedEarly \cup SkippedLate =>
                  /\ \A s \in call.st.staged : s.name # k
                  /\ \A j \in DOMAIN call.st.summaries : call.st.summaries[j].filename # k
        /\ (/\ call.key # "bad"
            /\ call.files # <<>>
            /\ \A k \in DOMAIN call.files :
                  call.files[k].fate \in SkippedEarly \cup SkippedLate \cup {"ok"})
              => call.pc # "failed"

\* C26: an error of the call to the remote validator ends mirrorFiles with
\* an error, which ends the mirror of the provider.
C26_ValidatorErrorAborts ==
    call.fn = "mirrorFiles" =>
        \A k \in Passed : call.files[k].fate = "rverror" => call.pc = "failed"

\* C27: the .sha256 and .sha512 files next to a staged advisory hold the
\* digests of exactly the bytes stored for it, which are the bytes its URL
\* served and none of an advisory before it; and when mirrorFiles returns
\* without error every staged advisory has both digest files.
C27_DigestsOfStoredBytes ==
    call.fn = "mirrorFiles" =>
        \A s \in call.st.staged :
            /\ s.data = call.files[s.name].body
            /\ s.sha256 \in {NoSum, Sum("sha256", s.data)}
            /\ s.sha512 \in {NoSum, Sum("sha512", s.data)}
            /\ ~call.st.err => s.sha256 # NoSum /\ s.sha512 # NoSum

\* Two advisories with different bytes staged one after the other, both
\* with their digests, and the indices written.
C27_Witness ==
    /\ call.fn = "mirrorFiles"
    /\ call.pc = "done"
    /\ \E s, t \in call.st.staged :
          /\ s.name < t.name
          /\ s.data # t.data
          /\ t.sha256 = Sum("sha256", t.data)
          /\ t.sha512 = Sum("sha512", t.data)

\* C28: when mirrorFiles goes on past an advisory, its .asc file exists
\* whenever the upstream served a signature (then it is the upstream's) or
\* a signing key is configured (then it is the aggregator's own); it is
\* absent only when the upstream has none and no key is configured.
C28_SignatureStaged ==
    (call.fn = "mirrorFiles" /\ ~call.st.err) =>
        \A s \in call.st.staged :
            LET served == call.files[s.name].sig = "served"
            IN /\ s.asc # "" <=> (served \/ call.key # "none")
               /\ served => s.asc = "upstream"
               /\ (~served /\ call.key # "none") => s.asc = "own"

\* An advisory with the upstream's signature and one signed with the own
\* key after the fetch of the signature failed.
C28_Witness ==
    /\ call.fn = "mirrorFiles"
    /\ call.pc = "done"
    /\ \E s, t \in call.st.staged :
          /\ s.asc = "upstream"
          /\ t.asc = "own"
          /\ call.files[t.name].sig = "geterror"

\* ---- mirrorPGPKeys ----

MaxKeys == 2

\* hex.DecodeString: an error for a string of odd length or with a
\* character that is no hexadecimal digit.
DecodeString(s) == Len(s) % 2 = 0 /\ \A i \in DOMAIN s : s[i] \in {"a", "B"}

\* strings.ToUpper.
ToUpper(s) ==
    [i \in DOMAIN s |-> IF s[i] = "a" THEN "A" ELSE IF s[i] = "z" THEN "Z" ELSE s[i]]

\* localKeyURL: <base URL of the provider>/openpgp/<fingerprint>.asc.
LocalKeyURL(fingerprint) == <<"local", "openpgp", fingerprint, ".asc">>

\* mirrorPGPKeys: a pass of the loop over pm.PGPKeys.  gets[i] is what
\* becomes of the download of key i.
MirrorKey(c) ==
    LET k == c.pm[c.i]
        fingerprint == ToUpper(k.fingerprint)
        fail == [c EXCEPT !.pc = "failed", !.folder = {}]
        skip == [c EXCEPT !.i = @ + 1]
    IN
    IF k.url = <<>> THEN skip
    ELSE IF ~DecodeString(k.fingerprint) THEN skip
    ELSE IF c.gets[c.i] # "ok" THEN fail
    ELSE [skip EXCEPT !.folder = @ \cup {fingerprint},
                      !.pm[c.i].url = LocalKeyURL(fingerprint)]

\* mirrorPGPKeys after the loop: the own public key.  pm.SetPGP gives the
\* entry of the fingerprint the URL, or adds an entry when there is none.
OwnKey(c) ==
    LET fingerprint == <<"C", "D">>
        SetPGP(pm) ==
            IF \E i \in DOMAIN pm : pm[i].fingerprint = fingerprint
            THEN [i \in DOMAIN pm |->
                     IF pm[i].fingerprint = fingerprint
                     THEN [pm[i] EXCEPT !.url = LocalKeyURL(fingerprint)]
                     ELSE pm[i]]
            ELSE Append(pm, [fingerprint |-> fingerprint, url |-> LocalKeyURL(fingerprint)])
    IN
    IF c.own = "" THEN [c EXCEPT !.pc = "written"]
    ELSE IF c.own = "bad" THEN [c EXCEPT !.pc = "failed", !.folder = {}]
    ELSE [c EXCEPT !.pc = "written", !.folder = @ \cup {fingerprint}, !.pm = SetPGP(@)]

\* $.public_openpgp_keys of the provider's metadata, what the download of
\* each key gives, and the public key of the configuration.
InitKeys ==
    LET Fingerprints == {<<"a", "B">>, <<"a">>, <<"z", "z">>, <<"C", "D">>}
        Keys == [fingerprint : Fingerprints, url : {<<>>, <<"upstream">>}]
        Gets == {"ok", "error", "status", "copy"}
    IN
    /\ Standalone
    /\ \E n \in 0 .. MaxKeys :
          \E pm \in [1 .. n -> Keys], gets \in [1 .. n -> Gets], own \in {"", "bad", "good"} :
              call = [fn |-> "mirrorPGPKeys", pc |-> "loop", pm |-> pm, gets |-> gets,
                      own |-> own, i |-> 1, folder |-> {}]

MirrorPGPKey ==
    /\ call.fn = "mirrorPGPKeys"
    /\ call.pc = "loop"
    /\ call.i <= Len(call.pm)
    /\ call' = MirrorKey(call)
    /\ OnlyCall

\* The own key, and writeProviderMetadata's util.WriteToFile(fname, pm)
\* when mirrorPGPKeys returned no error.
MirrorOwnKey ==
    /\ call.fn = "mirrorPGPKeys"
    /\ call.pc = "loop"
    /\ call.i > Len(call.pm)
    /\ call' = OwnKey(call)
    /\ OnlyCall

SpecKeys == InitKeys /\ [][MirrorPGPKey \/ MirrorOwnKey]_vars

\* C29: every entry of public_openpgp_keys with a URL in the written
\* provider-metadata.json has the local URL
\* <provider>/openpgp/<FINGERPRINT>.asc, the fingerprint in upper case; no
\* entry keeps the URL of the upstream, whatever its fingerprint.
C29_KeysLocal ==
    (call.fn = "mirrorPGPKeys" /\ call.pc = "written") =>
        \A i \in DOMAIN call.pm :
            call.pm[i].url # <<>> =>
                call.pm[i].url = LocalKeyURL(ToUpper(call.pm[i].fingerprint))

\* The advisory files of a staging directory with their digest files.
Hashes(staged) ==
    {[name |-> s.name, data |-> s.data, sha256 |-> s.sha256, sha512 |-> s.sha512] :
        s \in staged}

C31_OrphanFailureAborts ==
    pcMain \notin {"ensure", "orphans", "failed", "standalone"} =>
        \A e \in TopNames :
            /\ ~ReachesRemove(e, webTop[e])
            /\ ~(webTop[e].kind = "none" /\ webTop[e].tkind = "dir" /\ InOurFolder(webTop[e]))

\* C32: changes.csv and index.txt of a label have one row per recorded
\* summary; the rows of changes.csv are (current release date,
\* year/filename) with the later date first and, among equal dates, the
\* summary recorded first; index.txt lists year/filename in the order the
\* summaries were recorded, which the sorting of writeCSV leaves alone.
C32_IndexRows ==
    (call.fn = "mirrorFiles" /\ call.pc = "done") =>
        LET ss == call.stored
            csv == call.out.csv
            index == call.out.index
            Pos(i) == CHOOSE k \in DOMAIN ss : YearFile(ss[k]) = csv[i][2]
        IN
        /\ Len(csv) = Len(ss)
        /\ Len(index) = Len(ss)
        /\ \A k \in DOMAIN ss : index[k] = YearFile(ss[k])
        /\ \A i \in DOMAIN csv :
              /\ \E k \in DOMAIN ss : YearFile(ss[k]) = csv[i][2]
              /\ csv[i][1] = Format(ss[Pos(i)].current)
        /\ \A i, j \in DOMAIN csv :
              i < j =>
                  /\ Pos(i) # Pos(j)
                  /\ \/ ss[Pos(i)].current > ss[Pos(j)].current
                     \/ ss[Pos(i)].current = ss[Pos(j)].current /\ Pos(i) < Pos(j)

\* Two summaries, the later one recorded last: it is the first row of
\* changes.csv and the last line of index.txt.
C32_Witness ==
    /\ call.fn = "mirrorFiles"
    /\ call.pc = "done"
    /\ Len(call.stored) = 2
    /\ call.stored[1].current < call.stored[2].current
    /\ call.out.csv[1][2] = YearFile(call.stored[2])
    /\ call.out.index[2] = YearFile(call.stored[2])

C34_State ==
    /\ manifest.run \in {"absent", "prev", "this"}
    /\ manifest.run = "this" => (pcMain = "done" /\ manifest.providers = csafProviders)

\* aggregator.json changes in one step only, the rename of the closed temp
\* file, which is the last step of process(); no step that fails, and no
\* step on the temp file, changes it.
C34_Step ==
    (manifest'.run # manifest.run \/ manifest'.providers # manifest.providers) =>
        /\ pcMain = "write"
        /\ manifest.tmp = "closed"
        /\ pcMain' = "done"
        /\ manifest'.run = "this"

\* C34: the manifest is published atomically: at every point of process()
\* <web>/.well-known/csaf/aggregator.json is absent, the complete manifest
\* of an earlier run or the complete manifest of this run, and when
\* creating, writing or closing the temp file fails, process() ends with
\* the error and aggregator.json is as it was.
C34_ManifestAtomic == []C34_State /\ [][C34_Step]_vars

\* Writing the temp file failed on a system without aggregator.json:
\* process() has ended with the error and there is still none.
C34_Witness ==
    /\ pcMain = "failed"
    /\ manifest.tmp = "partial"
    /\ manifest.run = "absent"

\* <staging>/<label>/<year>/<filename> of a staged advisory file, relative
\* to the directory of the label.
StagedAt(s) == YearFile([year |-> s.year, filename |-> s.name])

\* The URL under which the aggregator serves a staged advisory file of the
\* label "white" of the provider "p":
\* <domain>/.well-known/csaf-aggregator/<provider>/<label>/<year>/<filename>.
ServedAt(s) ==
    <<"https://agg.test", "/.well-known/csaf-aggregator/", "p/", "white/">> \o StagedAt(s)

\* C35: in the snapshot of a mirror that succeeded, every row of
\* changes.csv, every line of index.txt and every entry of the feed of a
\* label refers to an advisory file that exists under
\* <staging>/<label>/<year>/, the year being that of the advisory's initial
\* release date, and every advisory file of the label is referred to by
\* each of the three.
C35_IndicesMatchFiles ==
    (call.fn = "mirrorFiles" /\ call.pc = "done") =>
        LET staged == call.st.staged
            out == call.out
        IN
        /\ \A s \in staged : s.year = call.files[s.name].year
        /\ {out.csv[i][2] : i \in DOMAIN out.csv} = {StagedAt(s) : s \in staged}
        /\ {out.index[i] : i \in DOMAIN out.index} = {StagedAt(s) : s \in staged}
        /\ {out.feed.entry[i].href : i \in DOMAIN out.feed.entry}
              = {ServedAt(s) : s \in staged}

\* C36: a configuration loadConfig returns without error has a worker
\* count of 1 or more, whatever worker count the file asked for (below 0,
\* 0 or above) and however many providers it has: process() starts at least
\* one goroutine that receives from the unbuffered job channel.
C36_WorkersPositive ==
    (call.fn = "loadConfig" /\ call.pc = "returned" /\ call.cfg = "cfg") =>
        call.workers >= 1

\* A returned configuration whose worker count was set by setDefaults: the
\* file can ask for 1 at most, and there are 2 workers.
C36_Witness ==
    /\ call.fn = "loadConfig"
    /\ call.pc = "returned"
    /\ call.cfg = "cfg"
    /\ call.workers = 2

\* loadChanges: what it takes from a record r the csv reader returns: the
\* number of fields, r[timeColumn] parsed with time.Parse(time.RFC3339, .),
\* where timeColumn is 1, the second field, and r[pathColumn], where
\* pathColumn is 0, the first.
Record(r) ==
    LET stamped == Len(r) >= 2 /\ \E t \in 0 .. 2 : r[2] = Format(t)
    IN [fields |-> Len(r),
        stamped |-> stamped,
        t |-> IF stamped THEN CHOOSE t \in 0 .. 2 : r[2] = Format(t) ELSE 0,
        path |-> IF Len(r) >= 1 THEN r[1] ELSE <<>>]

\* C37: loadChanges, with no AgeAccept, reads from a changes.csv that
\* writeCSV wrote one directory advisory file per row, in the order of the
\* rows, its path the base URL with the row's year/filename (the second
\* field writeCSV wrote) joined on.
C37_ChangesRoundTrip ==
    (call.fn = "mirrorFiles" /\ call.pc = "done") =>
        LET csv == call.out.csv
            base == <<"https://p.test/">>
            files == ChangesFiles([ageAccept |-> Nil], base,
                                  [i \in DOMAIN csv |-> Record(csv[i])], 1)
        IN
        /\ Len(files) = Len(csv)
        /\ \A i \in DOMAIN csv :
              files[i] = DirectoryAdvisoryFile(base \o csv[i][2])

\* ------------------------------------------------------------------ JoinURL

\* misc.JoinURL.  A url.URL is its fields Scheme, Host, Path (the
\* segments), RawQuery, Fragment and RawFragment; baseURL.JoinPath copies
\* baseURL and joins the path on.
JoinURL(baseURL, relativeURL) ==
    IF /\ relativeURL.Host # ""
       /\ relativeURL.Host # baseURL.Host
       /\ relativeURL.Scheme = "https"
    THEN relativeURL
    ELSE [baseURL EXCEPT !.Path = @ \o relativeURL.Path,
                         !.RawQuery = relativeURL.RawQuery,
                         !.RawFragment = relativeURL.RawFragment,
                         !.Scheme = "https"]

\* A base URL and a relative URL as url.Parse returns them: RawFragment is
\* set only for a fragment that is not in its default encoding.
InitJoin ==
    LET Fragments == {[f |-> "", raw |-> ""], [f |-> "f", raw |-> ""],
                      [f |-> "a/b", raw |-> "a%2Fb"]}
        URL(scheme, host, path, query, fragment) ==
            [Scheme |-> scheme, Host |-> host, Path |-> path, RawQuery |-> query,
             Fragment |-> fragment.f, RawFragment |-> fragment.raw]
        Schemes == {"", "http", "https"}
        Paths == {<<>>, <<"a">>}
    IN
    /\ Standalone
    /\ \E bs \in Schemes, bh \in {"", "h"}, bp \in Paths, bq \in {"", "p=1"},
          bf \in {[f |-> "", raw |-> ""], [f |-> "g", raw |-> ""]},
          rs \in Schemes, rh \in {"", "h", "o"}, rp \in Paths, rq \in {"", "q=1"},
          rf \in Fragments :
          call = [fn |-> "JoinURL", pc |-> "called",
                  baseURL |-> URL(bs, bh, bp, bq, bf),
                  relativeURL |-> URL(rs, rh, rp, rq, rf),
                  out |-> URL("", "", <<>>, "", [f |-> "", raw |-> ""])]

CallJoinURL ==
    /\ call.fn = "JoinURL"
    /\ call.pc = "called"
    /\ call' = [call EXCEPT !.pc = "returned",
                            !.out = JoinURL(call.baseURL, call.relativeURL)]
    /\ OnlyCall

SpecJoin == InitJoin /\ [][CallJoinURL]_vars

\* C38: the URL JoinURL returns has the scheme https; it is the relative
\* URL as it is when that has a host, other than the base URL's, and the
\* scheme https; otherwise it is the base URL with the relative URL's path
\* joined on and with the query and the fragment of the relative URL and
\* nothing of the query or fragment of the base URL.
C38_JoinURL ==
    (call.fn = "JoinURL" /\ call.pc = "returned") =>
        LET b == call.baseURL
            r == call.relativeURL
            u == call.out
        IN
        /\ u.Scheme = "https"
        /\ IF r.Host # "" /\ r.Host # b.Host /\ r.Scheme = "https"
           THEN u = r
           ELSE /\ u.Host = b.Host
                /\ u.Path = b.Path \o r.Path
                /\ u.RawQuery = r.RawQuery
                /\ u.Fragment = r.Fragment
                /\ u.RawFragment = r.RawFragment

\* ----------------------------------------------------------- csaf_validator

\* const exitCodeSchemaInvalid = 2 << iota, and the constants after it.
exitCodeSchemaInvalid == 2
exitCodeNoRemoteValidator == 4
exitCodeFailedRemoteValidation == 8
exitCodeAllValid == 0

\* a | b on ints.
RECURSIVE Or(_, _)
Or(a, b) ==
    IF a = 0 THEN b
    ELSE IF b = 0 THEN a
    ELSE (IF a % 2 = 1 \/ b % 2 = 1 THEN 1 ELSE 0) + 2 * Or(a \div 2, b \div 2)

\* A faulty variant of the loop body that assigns the exit code where the
\* code ors a bit into it.
RunFileAssign(c) ==
    LET file == c.files[c.i]
        onward == [c EXCEPT !.i = @ + 1]
        schema == IF file.schema = "violations"
                  THEN [onward EXCEPT !.exitCode = exitCodeSchemaInvalid]
                  ELSE onward
    IN
    IF file.load = "fail" THEN onward
    ELSE IF c.validator = "" THEN schema
    ELSE IF file.remote = "error" THEN [schema EXCEPT !.pc = "returned", !.err = TRUE]
    ELSE IF file.remote = "invalid"
    THEN [schema EXCEPT !.exitCode = exitCodeFailedRemoteValidation]
    ELSE schema

\* run: the body of the loop over the files.  A file is what loading it,
\* csaf.ValidateCSAF and validator.Validate give for it.
RunFile(c) ==
    LET file == c.files[c.i]
        onward == [c EXCEPT !.i = @ + 1]
        schema == IF file.schema = "violations"
                  THEN [onward EXCEPT !.exitCode = Or(@, exitCodeSchemaInvalid)]
                  ELSE onward
    IN
    IF file.load = "fail" THEN onward
    ELSE IF c.validator = "" THEN schema
    ELSE IF file.remote = "error" THEN [schema EXCEPT !.pc = "returned", !.err = TRUE]
    ELSE IF file.remote = "invalid"
    THEN [schema EXCEPT !.exitCode = Or(@, exitCodeFailedRemoteValidation)]
    ELSE schema

\* The options --validator ("" when not given, "down" when it cannot be
\* opened) and --output, and the files.
InitRun ==
    LET Files ==
            [load : {"fail"}, schema : {"-"}, remote : {"-"}]
                \cup [load : {"ok"}, schema : {"ok", "violations", "error"},
                      remote : {"valid", "invalid", "error"}]
    IN
    /\ Standalone
    /\ \E files \in UNION {[1 .. n -> Files] : n \in 0 .. MaxFiles},
          validator \in {"", "url", "down"}, output \in {"", "all", "bogus"} :
          call = [fn |-> "run", pc |-> "start", validator |-> validator,
                  output |-> output, files |-> files, i |-> 1,
                  exitCode |-> exitCodeAllValid, err |-> FALSE, exited |-> FALSE]

\* run, a step at a time: the options, a pass of the loop, os.Exit(exitCode).
Run ==
    /\ call.fn = "run"
    /\ call.pc \in {"start", "loop"}
    /\ call' =
          IF call.pc = "start"
          THEN IF call.validator = "down" \/ call.output = "bogus"
               THEN [call EXCEPT !.pc = "returned", !.err = TRUE,
                                 !.exitCode = IF call.validator = ""
                                              THEN Or(@, exitCodeNoRemoteValidator)
                                              ELSE @]
               ELSE [call EXCEPT !.pc = "loop",
                                 !.exitCode = IF call.validator = ""
                                              THEN Or(@, exitCodeNoRemoteValidator)
                                              ELSE @]
          ELSE IF call.i <= Len(call.files)
          THEN RunFile(call)
          ELSE [call EXCEPT !.pc = "returned", !.exited = TRUE]
    /\ OnlyCall

SpecRun == InitRun /\ [][Run]_vars

\* The files run processes: those that load as JSON.
Loaded == {k \in DOMAIN call.files : call.files[k].load = "ok"}

\* The exit code the claim states: 2 for a file with schema violations, 4
\* without a remote validator, 8 for a file that failed the remote
\* validation; the bits differ, so their or is their sum.
StatedExitCode ==
    (IF \E k \in Loaded : call.files[k].schema = "violations" THEN 2 ELSE 0)
        + (IF call.validator = "" THEN 4 ELSE 0)
        + (IF call.validator # "" /\ \E k \in Loaded : call.files[k].remote = "invalid"
           THEN 8 ELSE 0)

\* C39: over any list of files, run ends in os.Exit with the stated exit
\* code, which is 0 exactly when a remote validator is configured and no
\* processed file has schema violations or failed the remote validation.
C39_ExitCodeStrict ==
    (call.fn = "run" /\ call.pc = "returned") =>
        /\ call.exited
        /\ call.exitCode = StatedExitCode

\* C39 as it holds: run returns an error, and does not exit with any of
\* the codes, exactly when the remote validator cannot be opened, the
\* output amount is unknown, or a call of the remote validator fails for a
\* file that loaded; otherwise it exits with the stated exit code, which is
\* 0 exactly when a remote validator is configured and no processed file
\* has schema violations or failed the remote validation.  A file that does
\* not load changes nothing.
C39_ExitCode ==
    (call.fn = "run" /\ call.pc = "returned") =>
        /\ call.err <=>
              \/ call.validator = "down"
              \/ call.output = "bogus"
              \/ call.validator = "url" /\ \E k \in Loaded : call.files[k].remote = "error"
        /\ call.exited <=> ~call.err
        /\ call.exited =>
              /\ call.exitCode = StatedExitCode
              /\ call.exitCode = 0 <=>
                    /\ call.validator = "url"
                    /\ \A k \in Loaded : /\ call.files[k].schema # "violations"
                                         /\ call.files[k].remote # "invalid"

\* A run over a file with schema violations and a file that fails the
\* remote validation exits with 2 | 8.
C39_Witness ==
    /\ call.fn = "run"
    /\ call.pc = "returned"
    /\ call.exited
    /\ Len(call.files) = 2
    /\ call.files[1].schema = "violations"
    /\ call.files[2].remote = "invalid"
    /\ call.exitCode = 10

\* ------------------------------------------------- messageInstancePathsList

\* Most test results added to one list.
MaxAdds == 4

\* A faulty variant of add that does not look for the path among the paths
\* of the message.
addAgain(mipl, rtr) ==
    IF \E i \in DOMAIN mipl : mipl[i].message = rtr.Message
    THEN LET i == CHOOSE k \in DOMAIN mipl :
                      /\ mipl[k].message = rtr.Message
                      /\ \A j \in 1 .. (k - 1) : mipl[j].message # rtr.Message
         IN [mipl EXCEPT ![i].paths = Append(@, rtr.InstancePath)]
    ELSE Append(mipl, [message |-> rtr.Message, paths |-> <<rtr.InstancePath>>])

\* messageInstancePathsList.add: the first element with the message gets
\* the path unless it has it; without such an element a new one is
\* appended.
add(mipl, rtr) ==
    IF \E i \in DOMAIN mipl : mipl[i].message = rtr.Message
    THEN LET i == CHOOSE k \in DOMAIN mipl :
                      /\ mipl[k].message = rtr.Message
                      /\ \A j \in 1 .. (k - 1) : mipl[j].message # rtr.Message
         IN IF \E p \in DOMAIN mipl[i].paths : mipl[i].paths[p] = rtr.InstancePath
            THEN mipl
            ELSE [mipl EXCEPT ![i].paths = Append(@, rtr.InstancePath)]
    ELSE Append(mipl, [message |-> rtr.Message, paths |-> <<rtr.InstancePath>>])

\* messageInstancePathsList.addAll: add for each result, from result i on.
RECURSIVE addAll(_, _, _)
addAll(mipl, rtrs, i) ==
    IF i > Len(rtrs) THEN mipl ELSE addAll(add(mipl, rtrs[i]), rtrs, i + 1)

\* An empty list; added is the history of the results added to it.
InitAdd ==
    /\ Standalone
    /\ call = [fn |-> "add", mipl |-> <<>>, added |-> <<>>]

\* mipl.add(rtr) and mipl.addAll(rtrs) for the results of a test.
CallAdd ==
    LET Results == [Message : {"m1", "m2"}, InstancePath : {"/a", "/b"}] IN
    /\ call.fn = "add"
    /\ \/ \E rtr \in Results :
             /\ Len(call.added) < MaxAdds
             /\ call' = [call EXCEPT !.mipl = add(@, rtr), !.added = Append(@, rtr)]
       \/ \E n \in 0 .. 2 : \E rtrs \in [1 .. n -> Results] :
             /\ Len(call.added) + n <= MaxAdds
             /\ call' = [call EXCEPT !.mipl = addAll(@, rtrs, 1), !.added = @ \o rtrs]
    /\ OnlyCall

SpecAdd == InitAdd /\ [][CallAdd]_vars

\* The place of the first result of the history with this message (and,
\* unless path is "", this instance path).
First(message, path) ==
    CHOOSE k \in DOMAIN call.added :
        /\ call.added[k].Message = message
        /\ path # "" => call.added[k].InstancePath = path
        /\ \A j \in 1 .. (k - 1) :
              ~(/\ call.added[j].Message = message
                /\ path # "" => call.added[j].InstancePath = path)

\* C40: after any add and addAll calls each message is in exactly one
\* element, no element has an instance path twice, the (message, path)
\* pairs of the list are exactly the pairs that were added, and elements
\* and paths are in the order in which they first came.
C40_ListInvariant ==
    call.fn = "add" =>
        LET mipl == call.mipl IN
        /\ \A i, j \in DOMAIN mipl : mipl[i].message = mipl[j].message => i = j
        /\ \A i \in DOMAIN mipl :
              \A p, q \in DOMAIN mipl[i].paths :
                  mipl[i].paths[p] = mipl[i].paths[q] => p = q
        /\ UNION {{<<mipl[i].message, mipl[i].paths[p]>> : p \in DOMAIN mipl[i].paths} :
                     i \in DOMAIN mipl}
              = {<<call.added[k].Message, call.added[k].InstancePath>> :
                    k \in DOMAIN call.added}
        /\ \A i, j \in DOMAIN mipl :
              i < j => First(mipl[i].message, "") < First(mipl[j].message, "")
        /\ \A i \in DOMAIN mipl :
              \A p, q \in DOMAIN mipl[i].paths :
                  p < q => First(mipl[i].message, mipl[i].paths[p])
                              < First(mipl[i].message, mipl[i].paths[q])

\* Four results added, one of them twice: two elements, the first with
\* two paths.
C40_Witness ==
    /\ call.fn = "add"
    /\ Len(call.added) = 4
    /\ call.added[1] = call.added[3]
    /\ Len(call.mipl) = 2
    /\ Len(call.mipl[1].paths) = 2
    /\ Len(call.mipl[2].paths) = 1

====
